---- MODULE Spec2Model ----
(***************************************************************************)
(* Credential and password-recovery lifecycle of the Pomodoro backend:     *)
(* the forgot-password flow (UserProfileService over the Redis cache and   *)
(* the user table), with every await of a handler as one step, so that     *)
(* concurrent requests interleave exactly at the cache and database calls  *)
(* (Spec), registration, login and the bearer token (SpecAuth), setting    *)
(* and changing the password (SpecPassword), and the login through Yandex  *)
(* with its linking and enrichment of local users (SpecOAuth), the update  *)
(* of a profile (SpecUpdate), the bearer token while passwords change and  *)
(* users are deleted (SpecToken, SpecResetDeleted), recovery requests of   *)
(* two users (SpecRecoveryUsers), and the hasher and normalize_phone as    *)
(* pure functions (SpecHash, SpecNormalize).  Further specifications: the  *)
(* flow with the TTL of its keys as a fairness condition (SpecExpiry) and  *)
(* with both ends of the code range (SpecCodes), requests that carry a     *)
(* phone as typed (SpecRawPhone), callbacks and password calls over a      *)
(* linked passwordless account (SpecLinked), and every writer of a user    *)
(* row together (SpecPasswordKept).                                        *)
(*                                                                         *)
(* Python values: a str that is hashed or parsed is a sequence of          *)
(* one-character strings; Optional[T] is the empty set (None) or a         *)
(* singleton {x}.                                                          *)
(***************************************************************************)
EXTENDS Integers, Sequences, FiniteSets, TLC

VARIABLES
    users,      \* user_profiles table: id -> row
    cache,      \* Redis: key -> value (a key with a TTL may vanish at any time)
    nextUuid,   \* the next value uuid.uuid4() returns (all values are fresh)
    pc,         \* per request task: the await it is suspended at
    loc,        \* per request task: the local variables of its handler
    resp,       \* the HTTP response the last step sent (NoResp when it sent none)
    outbox,     \* e-mails handed to the SMTP server
    issued,     \* history: recovery_id -> the user and code it was generated for
    minted,     \* history: reset token -> the session and user it was minted from
    updates,    \* history: reset token -> number of password updates performed with it
    nextUserId, \* the next value of the user_profiles id sequence
    now,        \* the clock, in weeks
    held,       \* the bearer token the client holds (None or one JWT)
    registered, \* history: phone -> id and password of the successful registration
    oauth_accounts \* oauth_accounts table: id -> row

recoveryVars == <<cache, nextUuid, pc, loc, outbox, issued, minted, updates>>
authVars == <<nextUserId, now, held, registered, oauth_accounts>>
vars == <<users, resp, recoveryVars, authVars>>

----------------------------------------------------------------------------
(* Bounds of the model *)

NumTasks == 2
MaxUuid == 3
MaxSessions == 2

Tasks == 1..NumTasks

----------------------------------------------------------------------------
(* Python values *)

None == {}
Some(x) == {x}
Get(o) == CHOOSE x \in o : TRUE

DecDigits == <<"0", "1", "2", "3", "4", "5", "6", "7", "8", "9">>

RECURSIVE IntToStr(_)
IntToStr(n) ==
    IF n < 10 THEN <<DecDigits[n + 1]>>
    ELSE Append(IntToStr(n \div 10), DecDigits[(n % 10) + 1])

DigitValue(c) == (CHOOSE i \in 1..10 : DecDigits[i] = c) - 1

RECURSIVE StrToInt(_)
StrToInt(s) ==
    IF Len(s) = 1 THEN DigitValue(s[1])
    ELSE 10 * StrToInt(SubSeq(s, 1, Len(s) - 1)) + DigitValue(s[Len(s)])

----------------------------------------------------------------------------
(* Password hasher: Argon2 with a random salt drawn inside hash() *)

Salts == {"salt1", "salt2"}
\* The salts drawn while the forgot-password flow is explored.
RecoverySalts == {"salt1"}

get_password_hash(password, salt) ==
    [alg |-> "argon2id", salt |-> salt, digest |-> password]

\* A comparison that stops after the first character.
PasswordHasher_verify_prefix(hash, password) ==
    IF hash.alg # "argon2id" THEN "InvalidHashError"
    ELSE IF (hash.digest = <<>>) # (password = <<>>) THEN "VerifyMismatchError"
    ELSE IF hash.digest # <<>> /\ hash.digest[1] # password[1] THEN "VerifyMismatchError"
    ELSE "True"

\* PasswordHasher.verify: True, or the exception it raises.
PasswordHasher_verify(hash, password) ==
    IF hash.alg # "argon2id" THEN "InvalidHashError"
    ELSE IF hash.digest # password THEN "VerifyMismatchError"
    ELSE "True"

\* A hasher that accepts every secret.
verify_password_always(plain_password, hashed_password) ==
    hashed_password.alg = "argon2id"

\* The value verify_password returns (False when it caught the mismatch).
verify_password(plain_password, hashed_password) ==
    PasswordHasher_verify(hashed_password, plain_password) = "True"

\* The exception verify_password lets through, "" when it returns.
verify_password_raises(plain_password, hashed_password) ==
    LET outcome == PasswordHasher_verify(hashed_password, plain_password)
    IN  IF outcome \in {"True", "VerifyMismatchError"} THEN "" ELSE outcome

----------------------------------------------------------------------------
(* Exceptions and their HTTP responses *)

DefaultCredentialsDetail == "Invalid login or password."
AppExceptionDetail == "An application error occurred."
InvalidOrExpiredDetail == "Verification code is invalid or expired. Please try again."

PasswordVerifyError(detail) ==
    [cls |-> "PasswordVerifyError", app |-> TRUE, status_code |-> 401,
     error_type |-> "InvalidCredentials",
     detail |-> IF detail = "" THEN DefaultCredentialsDetail ELSE detail]

InvalidResetToken ==
    [cls |-> "InvalidResetToken", app |-> TRUE, status_code |-> 403,
     error_type |-> "InvalidResetToken", detail |-> AppExceptionDetail]

ObjectNotFoundError ==
    [cls |-> "ObjectNotFoundError", app |-> TRUE, status_code |-> 404,
     error_type |-> "ObjectNotFoundError", detail |-> "Object was not found in the database."]

SMTPException ==
    [cls |-> "SMTPException", app |-> FALSE, status_code |-> 500,
     error_type |-> "SMTPException", detail |-> "delivery failed"]

\* Only AppException has a registered handler; anything else is the
\* framework's plain 500.
app_exception_handler(exc) ==
    IF exc.app
        THEN [status |-> exc.status_code, error |-> exc.error_type, detail |-> exc.detail]
        ELSE [status |-> 500, error |-> "Internal Server Error", detail |-> ""]

Ok200 == [status |-> 200, error |-> "", detail |-> ""]

----------------------------------------------------------------------------
(* User table *)

Phone1 == <<"+", "7", "9", "1", "8", "1", "1", "1", "1", "1", "1", "1">>
Phone2 == <<"+", "7", "9", "1", "8", "2", "2", "2", "2", "2", "2", "2">>
PhoneUnknown == <<"+", "7", "0", "0", "0", "0", "0", "0", "0", "0", "0", "0">>
\* Phones of recovery requests: a registered one and one no user has.
RequestPhones == {Phone1, PhoneUnknown}

Password0 == <<"O", "l", "d", "p", "a", "s", "s", "1", "!">>
Password1 == <<"A", "b", "c", "d", "e", "f", "1", "!">>
Password2 == <<"Z", "y", "x", "w", "v", "u", "9", "?">>
NewPasswords == {Password1, Password2}

\* Two registered users, the second one without an e-mail address.
\* A user_profiles row as an insert leaves it: the given columns, the
\* column defaults, and null everywhere else.
UserProfile(id, phone, email, hashed_password) ==
    [id |-> id, phone |-> phone, phone_verified |-> FALSE,
     first_name |-> None, last_name |-> None, patronymic |-> None,
     birthday |-> None, email |-> email, email_verified |-> FALSE,
     hashed_password |-> hashed_password, about |-> None, role |-> "user",
     is_active |-> TRUE]

RegisteredUsers ==
    1 :> UserProfile(1, Some(Phone1), Some("ann@example.com"),
                     Some(get_password_hash(Password0, "salt1")))
    @@
    2 :> UserProfile(2, Some(Phone2), None,
                     Some(get_password_hash(Password0, "salt2")))

get_by_phone(user_phone) ==
    LET rows == {u \in DOMAIN users : users[u].phone = Some(user_phone)}
    IN  IF rows = {} THEN None ELSE Some(users[CHOOSE u \in rows : TRUE])

\* CRUDRepository.update_object with UpdatePasswordORMSchema: None when the
\* row does not exist.
update_password(table, object_id, hashed_password) ==
    [table EXCEPT ![object_id].hashed_password = Some(hashed_password)]

----------------------------------------------------------------------------
(* Redis *)

\* One key for every recovery session.
SessionKeyShared(recovery_id) == <<"password_reset:session:", 0>>

SessionKey(recovery_id) == <<"password_reset:session:", recovery_id>>
CodeKey(recovery_id) == <<"password_reset:code:", recovery_id>>
TokenKey(reset_token) == <<"password_reset:token:", reset_token>>

CacheGet(c, k) == IF k \in DOMAIN c THEN Some(c[k]) ELSE None
CacheSet(c, k, v) == [x \in DOMAIN c \cup {k} |-> IF x = k THEN v ELSE c[x]]
CacheDelete(c, k) == [x \in DOMAIN c \ {k} |-> c[x]]

----------------------------------------------------------------------------
(* Request tasks *)

IdleLoc ==
    [op |-> "", rid |-> 0, code |-> 0, hashed |-> None, uid |-> None,
     email |-> None, tok |-> 0, pw |-> <<>>, late |-> FALSE,
     old |-> <<>>, mismatch |-> FALSE, profile |-> None, user |-> None]

NoResp ==
    [op |-> "", status |-> 0, error |-> "", detail |-> "", rid |-> 0,
     code |-> 0, tok |-> 0, late |-> FALSE, cause |-> "", wrote |-> FALSE,
     phone |-> <<>>, pw |-> <<>>, jwt |-> None, uid |-> None,
     old |-> <<>>, mismatch |-> FALSE, email |-> None, profile |-> None,
     body |-> None, json |-> None]

\* The handler of task p returns or raises: its HTTP response, kept with the
\* call's inputs l.
Finish(p, l, http, cause, newTok, wrote) ==
    /\ pc' = [pc EXCEPT ![p] = "idle"]
    /\ loc' = [loc EXCEPT ![p] = IdleLoc]
    /\ resp' = [NoResp EXCEPT
                    !.op = l.op, !.status = http.status, !.error = http.error,
                    !.detail = http.detail, !.rid = l.rid, !.code = l.code,
                    !.tok = newTok, !.late = l.late, !.cause = cause,
                    !.wrote = wrote]

Goto(p, label, l) ==
    /\ pc' = [pc EXCEPT ![p] = label]
    /\ loc' = [loc EXCEPT ![p] = l]
    /\ resp' = NoResp

EmptyMap == [x \in {} |-> x]

\* Recovery ids for which check_recovery_code has returned a token, and reset
\* tokens for which reset_password_via_token has returned 200.
Verified == {minted[t].rid : t \in DOMAIN minted}
Consumed == {t \in DOMAIN updates : updates[t] > 0}

\* A new request runs in the first free task slot (the slots are anonymous).
FreeSlot(p) == pc[p] = "idle" /\ \A q \in Tasks : q < p => pc[q] # "idle"

Init ==
    /\ users = RegisteredUsers
    /\ cache = EmptyMap
    /\ nextUuid = 1
    /\ pc = [p \in Tasks |-> "idle"]
    /\ loc = [p \in Tasks |-> IdleLoc]
    /\ resp = NoResp
    /\ outbox = {}
    /\ issued = EmptyMap
    /\ minted = EmptyMap
    /\ updates = EmptyMap
    /\ nextUserId = 3
    /\ now = 0
    /\ held = None
    /\ registered = EmptyMap
    /\ oauth_accounts = EmptyMap

----------------------------------------------------------------------------
(* send_recovery_code_via_email *)

CodeBase == 100000
CodeRange == 900000
\* Values of secrets.randbelow(CodeRange) the model draws.
RandBelow == {0}

SendAlwaysStores(user) == IF user # None THEN "send_set_session" ELSE "send_set_code"

\* Where the handler continues after the lookup: the cache and the mailer are
\* touched only for an existing user.
SendAfterLookup(user) == IF user # None THEN "send_set_session" ELSE "return"

\* recovery_id, recovery_code and its hash are made, then the user is looked up.
send_recovery_code_via_email(p, user_phone, r, salt) ==
    /\ FreeSlot(p)
    /\ nextUuid <= MaxUuid
    /\ Cardinality(DOMAIN issued) < MaxSessions
    /\ LET recovery_id == nextUuid
           recovery_code == r + CodeBase
           hashed_code == get_password_hash(IntToStr(recovery_code), salt)
           user == get_by_phone(user_phone)
           l == [IdleLoc EXCEPT !.op = "send", !.rid = recovery_id,
                                !.code = recovery_code, !.hashed = Some(hashed_code),
                                !.uid = IF user = None THEN None ELSE Some(Get(user).id),
                                !.email = IF user = None THEN None ELSE Get(user).email]
       IN  /\ nextUuid' = nextUuid + 1
           /\ issued' = issued @@ (recovery_id :> [user |-> l.uid, code |-> recovery_code])
           /\ IF SendAfterLookup(user) = "return"
                 THEN Finish(p, l, Ok200, "", 0, FALSE)
                 ELSE Goto(p, SendAfterLookup(user), l)
    /\ UNCHANGED <<users, cache, outbox, minted, updates, authVars>>

send_set_recovery_session(p) ==
    /\ pc[p] = "send_set_session"
    /\ cache' = CacheSet(cache, SessionKey(loc[p].rid),
                         IF loc[p].uid = None THEN <<>> ELSE IntToStr(Get(loc[p].uid)))
    /\ pc' = [pc EXCEPT ![p] = "send_set_code"]
    /\ resp' = NoResp
    /\ UNCHANGED <<users, nextUuid, loc, outbox, issued, minted, updates, authVars>>

\* A handler that caches the text of the code without hashing it.
send_set_raw_password_code(p) ==
    /\ pc[p] = "send_set_code"
    /\ cache' = CacheSet(cache, CodeKey(loc[p].rid),
                         [alg |-> "plain", salt |-> "", digest |-> IntToStr(loc[p].code)])
    /\ pc' = [pc EXCEPT ![p] = "send_email"]
    /\ resp' = NoResp
    /\ UNCHANGED <<users, nextUuid, loc, outbox, issued, minted, updates, authVars>>

send_set_recovery_password_code(p) ==
    /\ pc[p] = "send_set_code"
    /\ cache' = CacheSet(cache, CodeKey(loc[p].rid), Get(loc[p].hashed))
    /\ pc' = [pc EXCEPT ![p] = "send_email"]
    /\ resp' = NoResp
    /\ UNCHANGED <<users, nextUuid, loc, outbox, issued, minted, updates, authVars>>

\* EmailService.send_password_recovery_email: the SMTP exchange succeeds or
\* raises; the exception is not caught anywhere.
send_password_recovery_email(p, delivered) ==
    /\ pc[p] = "send_email"
    /\ IF delivered
          THEN /\ outbox' = outbox \cup {[to |-> loc[p].email, code |-> loc[p].code,
                                          rid |-> loc[p].rid]}
               /\ Finish(p, loc[p], Ok200, "", 0, FALSE)
          ELSE /\ outbox' = outbox
               /\ Finish(p, loc[p], app_exception_handler(SMTPException), "smtp", 0, FALSE)
    /\ UNCHANGED <<users, cache, nextUuid, issued, minted, updates, authVars>>

----------------------------------------------------------------------------
(* check_recovery_code *)

\* The two raise statements of the handler.
CodeMissingError == PasswordVerifyError(InvalidOrExpiredDetail)

CodeMismatchDefaultDetail == PasswordVerifyError("")

CodeMismatchError == PasswordVerifyError(InvalidOrExpiredDetail)

\* The call starts with get_recovery_password_code.
check_get_recovery_password_code(p, recovery_id, input_code) ==
    /\ FreeSlot(p)
    /\ recovery_id \in DOMAIN issued
    /\ Goto(p, "check_get_session",
            [IdleLoc EXCEPT !.op = "check", !.rid = recovery_id, !.code = input_code,
                            !.hashed = CacheGet(cache, CodeKey(recovery_id)),
                            !.late = recovery_id \in Verified])
    /\ UNCHANGED <<users, cache, nextUuid, outbox, issued, minted, updates, authVars>>

\* A handler that drops the code of a session after a wrong attempt.
check_burn_code_on_mismatch(p) ==
    /\ pc[p] = "check_get_session"
    /\ LET value == CacheGet(cache, SessionKey(loc[p].rid))
           user_id == IF value = None THEN None ELSE Some(StrToInt(Get(value)))
           hashed_code == loc[p].hashed
           l == [loc[p] EXCEPT !.uid = user_id]
       IN  IF hashed_code = None \/ user_id = None
              THEN /\ Finish(p, l, app_exception_handler(CodeMissingError),
                             IF hashed_code = None THEN "no_code" ELSE "no_session",
                             0, FALSE)
                   /\ cache' = cache
              ELSE IF ~verify_password(IntToStr(l.code), Get(hashed_code))
                      THEN /\ Finish(p, l, app_exception_handler(CodeMismatchError),
                                     "mismatch", 0, FALSE)
                           /\ cache' = CacheDelete(cache, CodeKey(loc[p].rid))
                      ELSE Goto(p, "check_delete_code", l) /\ cache' = cache
    /\ UNCHANGED <<users, nextUuid, outbox, issued, minted, updates, authVars>>

\* get_recovery_session_user, then the two checks of the handler.
check_get_recovery_session_user(p) ==
    /\ pc[p] = "check_get_session"
    /\ LET value == CacheGet(cache, SessionKey(loc[p].rid))
           user_id == IF value = None THEN None ELSE Some(StrToInt(Get(value)))
           hashed_code == loc[p].hashed
           l == [loc[p] EXCEPT !.uid = user_id]
       IN  IF hashed_code = None \/ user_id = None
              THEN Finish(p, l, app_exception_handler(CodeMissingError),
                          IF hashed_code = None THEN "no_code" ELSE "no_session",
                          0, FALSE)
              ELSE IF ~verify_password(IntToStr(l.code), Get(hashed_code))
                      THEN Finish(p, l, app_exception_handler(CodeMismatchError),
                                  "mismatch", 0, FALSE)
                      ELSE Goto(p, "check_delete_code", l)
    /\ UNCHANGED <<users, cache, nextUuid, outbox, issued, minted, updates, authVars>>

check_keep_recovery_session(p) ==
    /\ pc[p] = "check_delete_code"
    /\ pc' = [pc EXCEPT ![p] = "check_set_token"]
    /\ resp' = NoResp
    /\ UNCHANGED <<users, cache, nextUuid, loc, outbox, issued, minted, updates, authVars>>

check_delete_recovery_password_code(p) ==
    /\ pc[p] = "check_delete_code"
    /\ cache' = CacheDelete(cache, CodeKey(loc[p].rid))
    /\ pc' = [pc EXCEPT ![p] = "check_delete_session"]
    /\ resp' = NoResp
    /\ UNCHANGED <<users, nextUuid, loc, outbox, issued, minted, updates, authVars>>

check_delete_recovery_session(p) ==
    /\ pc[p] = "check_delete_session"
    /\ cache' = CacheDelete(cache, SessionKey(loc[p].rid))
    /\ pc' = [pc EXCEPT ![p] = "check_set_token"]
    /\ resp' = NoResp
    /\ UNCHANGED <<users, nextUuid, loc, outbox, issued, minted, updates, authVars>>

\* reset_token = uuid4().hex, set_recovery_token, return.
check_set_recovery_token(p) ==
    /\ pc[p] = "check_set_token"
    /\ nextUuid <= MaxUuid
    /\ LET reset_token == nextUuid
       IN  /\ nextUuid' = nextUuid + 1
           /\ cache' = CacheSet(cache, TokenKey(reset_token), IntToStr(Get(loc[p].uid)))
           /\ minted' = minted @@ (reset_token :>
                  [rid |-> loc[p].rid, uid |-> Get(loc[p].uid)])
           /\ updates' = updates @@ (reset_token :> 0)
           /\ Finish(p, loc[p], Ok200, "", reset_token, FALSE)
    /\ UNCHANGED <<users, outbox, issued, authVars>>

----------------------------------------------------------------------------
(* reset_password_via_token *)

\* The call starts with get_recovery_token.
reset_get_recovery_token(p, token, new_password) ==
    /\ FreeSlot(p)
    /\ token \in DOMAIN minted
    /\ LET value == CacheGet(cache, TokenKey(token))
           user_id == IF value = None THEN None ELSE Some(StrToInt(Get(value)))
           l == [IdleLoc EXCEPT !.op = "reset", !.tok = token, !.pw = new_password,
                                !.uid = user_id, !.late = token \in Consumed]
       IN  IF user_id = None
              THEN Finish(p, l, app_exception_handler(InvalidResetToken), "no_token",
                          token, FALSE)
              ELSE Goto(p, "reset_delete_token", l)
    /\ UNCHANGED <<users, cache, nextUuid, outbox, issued, minted, updates, authVars>>

reset_keep_recovery_token(p) ==
    /\ pc[p] = "reset_delete_token"
    /\ pc' = [pc EXCEPT ![p] = "reset_update"]
    /\ resp' = NoResp
    /\ UNCHANGED <<users, cache, nextUuid, loc, outbox, issued, minted, updates, authVars>>

reset_delete_recovery_token(p) ==
    /\ pc[p] = "reset_delete_token"
    /\ cache' = CacheDelete(cache, TokenKey(loc[p].tok))
    /\ pc' = [pc EXCEPT ![p] = "reset_update"]
    /\ resp' = NoResp
    /\ UNCHANGED <<users, nextUuid, loc, outbox, issued, minted, updates, authVars>>

\* _update_user_password: hash, then CRUDService.update_object.
reset_update_user_password(p, salt) ==
    /\ pc[p] = "reset_update"
    /\ LET user_id == Get(loc[p].uid)
           hashed_password == get_password_hash(loc[p].pw, salt)
       IN  IF user_id \in DOMAIN users
              THEN /\ users' = update_password(users, user_id, hashed_password)
                   /\ updates' = [updates EXCEPT ![loc[p].tok] = @ + 1]
                   /\ Finish(p, loc[p], Ok200, "", loc[p].tok, TRUE)
              ELSE /\ UNCHANGED <<users, updates>>
                   /\ Finish(p, loc[p], app_exception_handler(ObjectNotFoundError),
                             "no_user", loc[p].tok, FALSE)
    /\ UNCHANGED <<cache, nextUuid, outbox, issued, minted, authVars>>

----------------------------------------------------------------------------
(* TTL: Redis drops a key set with ex= when its time is up *)

\* A key that never expires.
ExpireNever(k) ==
    /\ k \in DOMAIN cache
    /\ resp' = NoResp
    /\ UNCHANGED <<users, cache, nextUuid, pc, loc, outbox, issued, minted, updates, authVars>>

Expire(k) ==
    /\ k \in DOMAIN cache
    /\ cache' = CacheDelete(cache, k)
    /\ resp' = NoResp
    /\ UNCHANGED <<users, nextUuid, pc, loc, outbox, issued, minted, updates, authVars>>

----------------------------------------------------------------------------
(* The forgot-password flow under concurrent requests *)

\* Codes a client enters: the generated ones and one that was never generated.
InputCodes == {r + CodeBase : r \in RandBelow} \cup {CodeBase + CodeRange - 1}

Next ==
    \/ \E p \in Tasks, ph \in RequestPhones, r \in RandBelow, s \in RecoverySalts :
            send_recovery_code_via_email(p, ph, r, s)
    \/ \E p \in Tasks : send_set_recovery_session(p)
    \/ \E p \in Tasks : send_set_recovery_password_code(p)
    \/ \E p \in Tasks, d \in BOOLEAN : send_password_recovery_email(p, d)
    \/ \E p \in Tasks, rid \in 1..MaxUuid, c \in InputCodes :
            check_get_recovery_password_code(p, rid, c)
    \/ \E p \in Tasks : check_get_recovery_session_user(p)
    \/ \E p \in Tasks : check_delete_recovery_password_code(p)
    \/ \E p \in Tasks : check_delete_recovery_session(p)
    \/ \E p \in Tasks : check_set_recovery_token(p)
    \/ \E p \in Tasks, t \in 1..MaxUuid, pw \in NewPasswords :
            reset_get_recovery_token(p, t, pw)
    \/ \E p \in Tasks : reset_delete_recovery_token(p)
    \/ \E p \in Tasks, s \in RecoverySalts : reset_update_user_password(p, s)
    \/ \E k \in DOMAIN cache : Expire(k)

Spec == Init /\ [][Next]_vars

\* The same flow with recovery requests for both registered users.
NextRecoveryUsers ==
    \/ \E p \in Tasks, r \in RandBelow, s \in RecoverySalts :
            send_recovery_code_via_email(p, Phone2, r, s)
    \/ Next

SpecRecoveryUsers == Init /\ [][NextRecoveryUsers]_vars

\* The flow with both ends of the range of secrets.randbelow(CodeRange).
RandBelowEnds == {0, CodeRange - 1}

NextCodes ==
    \/ \E p \in Tasks, r \in RandBelowEnds, s \in RecoverySalts :
            send_recovery_code_via_email(p, Phone1, r, s)
    \/ Next

SpecCodes == Init /\ [][NextCodes]_vars

\* Every key of the flow is written with ex=RECOVERY_PASSWORD_CODE_LIFESPAN.
CacheKeys ==
    {SessionKey(r) : r \in 1..MaxUuid} \cup {CodeKey(r) : r \in 1..MaxUuid}
        \cup {TokenKey(t) : t \in 1..MaxUuid}

\* The flow with the clock of the cache running: a key that stays in the
\* cache reaches the end of its TTL.
SpecExpiry == Spec /\ \A k \in CacheKeys : WF_vars(Expire(k))

----------------------------------------------------------------------------
(* Registration, login and the bearer token *)

MIN_PASSWORD_LENGTH == 8
\* timedelta(weeks=4); the clock counts weeks.
JWT_LIFE_SPAN == 4
JWT_SECRET_KEY == "secretkey"
MaxTime == 5

UniqueValueDetail == "Object with this unique value already exists."
OAuthAccountDetail == "This account was created via OAuth."

IntegrityDBError ==
    [cls |-> "IntegrityDBError", app |-> TRUE, status_code |-> 409,
     error_type |-> "IntegrityDBError", detail |-> UniqueValueDetail]

\* str(exc.orig) of the driver for a violated unique constraint, as a
\* sequence of words.
UniqueViolationError(column) ==
    <<"duplicate", "key", "value", "violates", "unique", "constraint",
      "user_profiles_" \o column \o "_key", "DETAIL:", "Key", column,
      "already", "exists.">>

\* str.lower on the words of a database message.
lower_word(w) ==
    CASE w = "DETAIL:" -> "detail:"
      [] w = "Key" -> "key"
      [] OTHER -> w

str_lower(message) == [i \in DOMAIN message |-> lower_word(message[i])]

\* phrase in message
contains(message, phrase) ==
    \E i \in 1..(Len(message) - Len(phrase) + 1) :
        SubSeq(message, i, i + Len(phrase) - 1) = phrase

\* IntegrityDBError(exc): the detail chosen from the database message, and
\* the message kept in db_error.
IntegrityDBError_init(orig) ==
    LET error_message == str_lower(orig)
        detail ==
            IF contains(error_message, <<"unique", "constraint">>)
                THEN UniqueValueDetail
            ELSE IF contains(error_message, <<"duplicate", "key", "value">>)
                THEN "Object with this unique key already exists."
            ELSE IF contains(error_message, <<"not-null", "constraint">>)
                THEN "One of the required fields cannot be empty."
            ELSE IF contains(error_message, <<"foreign", "key", "constraint">>)
                THEN "Reference to non-existent record. Please check foreign key relationships."
            ELSE "Database integrity constraint violation."
    IN  [cls |-> "IntegrityDBError", app |-> TRUE, status_code |-> 409,
         error_type |-> "IntegrityDBError", detail |-> detail,
         db_error |-> error_message]

AppException_to_dict(exc) == [error |-> exc.error_type, detail |-> exc.detail]

\* IntegrityDBError.to_dict
IntegrityDBError_to_dict(exc) ==
    [error |-> exc.error_type, detail |-> exc.detail, db_error |-> exc.db_error]

\* A plain Exception subclass: no handler is registered for it.
UserNotFoundError ==
    [cls |-> "UserNotFoundError", app |-> FALSE, status_code |-> 500,
     error_type |-> "UserNotFoundError", detail |-> "User not found"]

\* Reading an attribute of None.
AttributeError ==
    [cls |-> "AttributeError", app |-> FALSE, status_code |-> 500,
     error_type |-> "AttributeError", detail |-> "'NoneType' object has no attribute"]

\* The framework's own answer to a body that fails a Field constraint.
RequestValidationError ==
    [cls |-> "RequestValidationError", app |-> TRUE, status_code |-> 422,
     error_type |-> "RequestValidationError", detail |-> "string_too_short"]

credentials_exception ==
    [status |-> 401, error |-> "", detail |-> "Could not validate credentials"]

Created201 == [status |-> 201, error |-> "", detail |-> ""]

LowerChars ==
    {"a", "b", "c", "d", "e", "f", "g", "h", "i", "j", "k", "l", "m",
     "n", "o", "p", "q", "r", "s", "t", "u", "v", "w", "x", "y", "z"}
UpperChars ==
    {"A", "B", "C", "D", "E", "F", "G", "H", "I", "J", "K", "L", "M",
     "N", "O", "P", "Q", "R", "S", "T", "U", "V", "W", "X", "Y", "Z"}
DigitChars == {"0", "1", "2", "3", "4", "5", "6", "7", "8", "9"}
WordChars == LowerChars \cup UpperChars \cup DigitChars \cup {"_"}
SpaceChars == {" ", "\t", "\n", "\r", "\f"}

re_search(chars, value) == \E i \in 1..Len(value) : value[i] \in chars

\* PasswordPolicy.validate: the exception it raises, or None.
PasswordPolicy(value) ==
    IF ~re_search(LowerChars, value)
        THEN Some(PasswordVerifyError("Password must contain at least one lowercase letter"))
    ELSE IF ~re_search(UpperChars, value)
        THEN Some(PasswordVerifyError("Password must contain at least one uppercase letter"))
    ELSE IF ~re_search(DigitChars, value)
        THEN Some(PasswordVerifyError("Password must contain at least one digit"))
    ELSE IF \A i \in 1..Len(value) : value[i] \in WordChars \cup SpaceChars
        THEN Some(PasswordVerifyError("Password must contain at least one special character"))
    ELSE None

\* Validation of the password field of the registration body: the Field
\* constraint first, then the field validator; None passes both.
CreateUserProfileSchema(password) ==
    IF password = None THEN None
    ELSE IF Len(Get(password)) < MIN_PASSWORD_LENGTH THEN Some(RequestValidationError)
    ELSE PasswordPolicy(Get(password))

Phone3 == <<"+", "7", "9", "9", "9", "1", "2", "3", "4", "5", "6", "7">>
Email1 == Some("ann@example.com")
Email3 == Some("new@example.com")
WeakPassword == <<"a", "b", "c", "d", "e", "f", "g", "1", "!">>
ShortPassword == <<"A", "b", "1", "!">>

RegisterPhones == {Phone1, Phone3}
RegisterEmails == {None, Email1, Email3}
RegisterPasswords ==
    {None, Some(Password1), Some(Password2), Some(WeakPassword), Some(ShortPassword)}
LoginPhones == {Phone1, Phone2, Phone3}
LoginPasswords == {Password0, Password1, Password2}

\* The table before the first request: a user with a local password and a
\* user created by an OAuth login (no local password); either row may be
\* soft-deleted.
SeedUsers(active1, active2) ==
    [RegisteredUsers EXCEPT ![1].is_active = active1,
                            ![2].is_active = active2,
                            ![2].hashed_password = None]

\* The link of that second user: the row its first callback stored.
SeedLinks ==
    1 :> [id |-> 1, provider |-> "yandex", provider_user_id |-> "ya-3",
          phone |-> Some(Phone2), first_name |-> None, last_name |-> None,
          birthday |-> None, email |-> Some("ann@example.com"), user_id |-> 2]

AuthResp(op, http, phone, pw, jwt, uid) ==
    [NoResp EXCEPT !.op = op, !.status = http.status, !.error = http.error,
                   !.detail = http.detail, !.phone = phone, !.pw = pw,
                   !.jwt = jwt, !.uid = uid]

InitAuth ==
    /\ \E active1, active2 \in BOOLEAN : users = SeedUsers(active1, active2)
    /\ cache = EmptyMap
    /\ nextUuid = 1
    /\ pc = [p \in Tasks |-> "idle"]
    /\ loc = [p \in Tasks |-> IdleLoc]
    /\ resp = NoResp
    /\ outbox = {}
    /\ issued = EmptyMap
    /\ minted = EmptyMap
    /\ updates = EmptyMap
    /\ nextUserId = 3
    /\ now = 0
    /\ held = None
    /\ registered = EmptyMap
    /\ oauth_accounts = SeedLinks

\* A table without unique constraints.
no_unique_violation(table, phone, email) == FALSE

\* The unique constraints of user_profiles.phone and user_profiles.email
\* against a row to insert.
unique_violation(table, phone, email) ==
    \E u \in DOMAIN table :
        \/ (phone # None /\ table[u].phone = phone)
        \/ (email # None /\ table[u].email = email)

\* The fields of the response model of a user (the two timestamps are left
\* out: the rows of this model carry no times).
ResponseUserProfileSchemaFields ==
    {"phone", "first_name", "last_name", "patronymic", "birthday", "email",
     "about", "id", "phone_verified", "email_verified", "is_active", "role"}

\* A projection that also copies the stored hash.
ResponseWithHashedPassword(obj) ==
    [f \in ResponseUserProfileSchemaFields \cup {"hashed_password"} |-> obj[f]]

\* model_validate(obj) with from_attributes: the attributes named by the
\* fields of the schema, and nothing else.
ResponseUserProfileSchema(obj) ==
    [f \in ResponseUserProfileSchemaFields |-> obj[f]]

\* POST /auth/register.
create_user(phone, email, password, salt) ==
    LET invalid == CreateUserProfileSchema(password)
        pw == IF password = None THEN <<>> ELSE Get(password)
        taken == unique_violation(users, Some(phone), email)
        column == IF \E u \in DOMAIN users : users[u].phone = Some(phone)
                    THEN "phone" ELSE "email"
        conflict == IntegrityDBError_init(UniqueViolationError(column))
        answer(http, uid) ==
            [AuthResp("register", http, phone, pw, None, uid) EXCEPT !.email = email]
    IN  /\ IF invalid # None
              THEN /\ resp' = answer(app_exception_handler(Get(invalid)), None)
                   /\ UNCHANGED <<users, nextUserId, registered>>
           ELSE IF password = None
              \* hash(None)
              THEN /\ resp' = answer(app_exception_handler(AttributeError), None)
                   /\ UNCHANGED <<users, nextUserId, registered>>
           ELSE IF taken
              THEN /\ resp' = [answer(app_exception_handler(conflict), None) EXCEPT
                                    !.json = Some(IntegrityDBError_to_dict(conflict))]
                   /\ UNCHANGED <<users, nextUserId, registered>>
           ELSE /\ users' = users @@ (nextUserId :>
                        UserProfile(nextUserId, Some(phone), email,
                                    Some(get_password_hash(pw, salt))))
                /\ nextUserId' = nextUserId + 1
                /\ registered' = registered @@ (phone :> [id |-> nextUserId, pw |-> pw])
                /\ resp' = [answer(Created201, Some(nextUserId)) EXCEPT
                                !.json = Some(ResponseUserProfileSchema(users'[nextUserId]))]
        /\ UNCHANGED <<recoveryVars, now, held, oauth_accounts>>

\* The token with its lifetime cut to nothing.
create_access_token_without_lifespan(data, t) ==
    [sub |-> data.sub, exp |-> t, key |-> JWT_SECRET_KEY]

create_access_token(data, t) ==
    [sub |-> data.sub, exp |-> t + JWT_LIFE_SPAN, key |-> JWT_SECRET_KEY]

\* A decoder that does not look at the expiry.
jwt_decode_without_expiry(token, key, t) ==
    IF token.key # key THEN [error |-> "JWTError", payload |-> None]
    ELSE [error |-> "", payload |-> Some([sub |-> token.sub, exp |-> token.exp])]

\* jwt.decode: signature, then expiry.
jwt_decode(token, key, t) ==
    IF token.key # key THEN [error |-> "JWTError", payload |-> None]
    ELSE IF token.exp < t THEN [error |-> "ExpiredSignatureError", payload |-> None]
    ELSE [error |-> "", payload |-> Some([sub |-> token.sub, exp |-> token.exp])]

\* AuthService.login, in the order of its statements: the exception it
\* raises, or the token it returns.
AuthService_login(phone, password, t) ==
    LET user_or_none == get_by_phone(phone)
        raise(exc) == [exc |-> Some(exc), token |-> None]
    IN  IF user_or_none = None
            \* user_or_none.hashed_password
            THEN raise(AttributeError)
        ELSE IF Get(user_or_none).hashed_password = None
            THEN raise(PasswordVerifyError(OAuthAccountDetail))
        ELSE IF ~Get(user_or_none).is_active
            THEN raise(UserNotFoundError)
        ELSE IF ~verify_password(password, Get(Get(user_or_none).hashed_password))
            THEN raise(PasswordVerifyError(""))
        ELSE [exc |-> None,
              token |-> Some(create_access_token(
                            [sub |-> IntToStr(Get(user_or_none).id)], t))]

\* POST /auth/login; the client keeps the token of its last successful login.
login(phone, password) ==
    LET result == AuthService_login(phone, password, now)
        http == IF result.exc = None THEN Ok200
                ELSE app_exception_handler(Get(result.exc))
    IN  /\ resp' = AuthResp("login", http, phone, password, result.token, None)
        /\ held' = IF result.token = None THEN held
                   ELSE Some([jwt |-> Get(result.token), phone |-> phone,
                              pw |-> password, iat |-> now])
        /\ UNCHANGED <<users, recoveryVars, nextUserId, now, registered, oauth_accounts>>

\* The dependency get_current_user for a bearer token: the row it returns,
\* or the response of the exception it raises.
current_user_of(token) ==
    LET decoded == jwt_decode(token, JWT_SECRET_KEY, now)
    IN  IF decoded.error # "" THEN [http |-> credentials_exception, uid |-> None]
        ELSE LET user_id == StrToInt(Get(decoded.payload).sub)
             IN  IF user_id \notin DOMAIN users
                     THEN [http |-> app_exception_handler(ObjectNotFoundError),
                           uid |-> None]
                 ELSE [http |-> Ok200, uid |-> Some(users[user_id].id)]

\* A request to a protected endpoint (GET /users/me) with the held token.
get_current_user ==
    /\ held # None
    /\ LET h == Get(held)
           r == current_user_of(h.jwt)
       IN  resp' = AuthResp("me", r.http, h.phone, h.pw, Some(h.jwt), r.uid)
    /\ UNCHANGED <<users, recoveryVars, authVars>>

Tick ==
    /\ now < MaxTime
    /\ now' = now + 1
    /\ resp' = NoResp
    /\ UNCHANGED <<users, recoveryVars, nextUserId, held, registered, oauth_accounts>>

NextAuth ==
    \/ \E ph \in RegisterPhones, e \in RegisterEmails, pw \in RegisterPasswords,
          s \in Salts : create_user(ph, e, pw, s)
    \/ \E ph \in LoginPhones, pw \in LoginPasswords : login(ph, pw)
    \/ get_current_user
    \/ Tick

SpecAuth == InitAuth /\ [][NextAuth]_vars

----------------------------------------------------------------------------
(* Setting and changing the password of the authenticated user *)

PasswordAlreadySetError ==
    [cls |-> "PasswordAlreadySetError", app |-> TRUE, status_code |-> 409,
     error_type |-> "PasswordAlreadySet",
     detail |-> "Cannot set password when it is already set. You can only change the password."]

\* verify() on a hash that is None.
InvalidHashError ==
    [cls |-> "InvalidHashError", app |-> FALSE, status_code |-> 500,
     error_type |-> "InvalidHashError", detail |-> "hash is None"]

\* Validation of the body of set_password and confirm_reset_password: the
\* field validator only, the field has no length constraint.
SetPasswordSchema(new_password) == PasswordPolicy(new_password)

\* The field validator of new_password, then check_passwords_differ.
ChangePasswordSchema(new_password, old_password) ==
    IF SetPasswordSchema(new_password) # None THEN SetPasswordSchema(new_password)
    ELSE IF new_password = old_password
        THEN Some(PasswordVerifyError("New password must be different from the old one"))
    ELSE None

SetPasswords == {Password1, Password2, WeakPassword, ShortPassword}
OldPasswords == {Password0, Password1}

\* The handler of task p returns or raises: its response, with the account
\* and the new password of the call.
FinishPassword(p, l, http, wrote) ==
    /\ pc' = [pc EXCEPT ![p] = "idle"]
    /\ loc' = [loc EXCEPT ![p] = IdleLoc]
    /\ resp' = [NoResp EXCEPT
                    !.op = l.op, !.status = http.status, !.error = http.error,
                    !.detail = http.detail, !.uid = l.uid, !.pw = l.pw,
                    !.late = l.late, !.wrote = wrote, !.old = l.old,
                    !.mismatch = l.mismatch]

InitPassword ==
    /\ users = SeedUsers(TRUE, TRUE)
    /\ cache = EmptyMap
    /\ nextUuid = 1
    /\ pc = [p \in Tasks |-> "idle"]
    /\ loc = [p \in Tasks |-> IdleLoc]
    /\ resp = NoResp
    /\ outbox = {}
    /\ issued = EmptyMap
    /\ minted = EmptyMap
    /\ updates = EmptyMap
    /\ nextUserId = 3
    /\ now = 0
    /\ held = None
    /\ registered = EmptyMap
    /\ oauth_accounts = SeedLinks

passwordFrame == <<cache, nextUuid, outbox, issued, minted, updates, authVars>>

\* A guard that lets every call through.
PasswordNeverSet(current_user) == FALSE

PasswordAlreadySet(current_user) == current_user.hashed_password # None

\* PATCH /users/me/set_password, up to the await of the update.
set_password(p, current_user_id, new_password) ==
    LET l == [IdleLoc EXCEPT !.op = "set", !.uid = Some(current_user_id),
                             !.pw = new_password,
                             !.late = users[current_user_id].hashed_password # None]
        invalid == SetPasswordSchema(new_password)
    IN  /\ FreeSlot(p)
        /\ current_user_id \in DOMAIN users
        /\ IF invalid # None
              THEN FinishPassword(p, l, app_exception_handler(Get(invalid)), FALSE)
           ELSE IF PasswordAlreadySet(users[current_user_id])
              THEN FinishPassword(p, l, app_exception_handler(PasswordAlreadySetError), FALSE)
           ELSE Goto(p, "set_update", l)
        /\ UNCHANGED <<users, passwordFrame>>

\* _update_user_password: hash, then CRUDService.update_object.
update_user_password(p, label, salt) ==
    /\ pc[p] = label
    /\ LET user_id == Get(loc[p].uid)
       IN  IF user_id \in DOMAIN users
              THEN /\ users' = update_password(users, user_id,
                                               get_password_hash(loc[p].pw, salt))
                   /\ FinishPassword(p, loc[p], Ok200, TRUE)
              ELSE /\ UNCHANGED users
                   /\ FinishPassword(p, loc[p],
                                     app_exception_handler(ObjectNotFoundError), FALSE)
    /\ UNCHANGED passwordFrame

set_update_user_password(p, salt) == update_user_password(p, "set_update", salt)

\* A check that accepts every old password.
OldPasswordAccepted(old_password, current_user) == TRUE

OldPasswordVerifies(old_password, current_user) ==
    verify_password(old_password, Get(current_user.hashed_password))

\* PATCH /users/me/change_password, up to the await of the update.
change_password(p, current_user_id, old_password, new_password) ==
    LET current_user == users[current_user_id]
        \* mismatch: the row read has a hash, made from another password
        l == [IdleLoc EXCEPT !.op = "change", !.uid = Some(current_user_id),
                             !.pw = new_password, !.old = old_password,
                             !.mismatch =
                                IF current_user.hashed_password = None THEN FALSE
                                ELSE Get(current_user.hashed_password).digest
                                        # old_password]
        invalid == ChangePasswordSchema(new_password, old_password)
    IN  /\ FreeSlot(p)
        /\ current_user_id \in DOMAIN users
        /\ IF invalid # None
              THEN FinishPassword(p, l, app_exception_handler(Get(invalid)), FALSE)
           ELSE IF current_user.hashed_password = None
              THEN FinishPassword(p, l, app_exception_handler(InvalidHashError), FALSE)
           ELSE IF ~OldPasswordVerifies(old_password, current_user)
              THEN FinishPassword(p, l, app_exception_handler(
                        PasswordVerifyError("Current password is incorrect.")), FALSE)
           ELSE Goto(p, "change_update", l)
        /\ UNCHANGED <<users, passwordFrame>>

change_update_user_password(p, salt) == update_user_password(p, "change_update", salt)

NextPassword ==
    \/ \E p \in Tasks, u \in DOMAIN users, pw \in SetPasswords : set_password(p, u, pw)
    \/ \E p \in Tasks, s \in RecoverySalts : set_update_user_password(p, s)
    \/ \E p \in Tasks, u \in DOMAIN users, old \in OldPasswords, pw \in SetPasswords :
            change_password(p, u, old, pw)
    \/ \E p \in Tasks, s \in RecoverySalts : change_update_user_password(p, s)

SpecPassword == InitPassword /\ [][NextPassword]_vars

----------------------------------------------------------------------------
(* Normalizers *)

LowerSeq ==
    <<"a", "b", "c", "d", "e", "f", "g", "h", "i", "j", "k", "l", "m",
      "n", "o", "p", "q", "r", "s", "t", "u", "v", "w", "x", "y", "z">>
UpperSeq ==
    <<"A", "B", "C", "D", "E", "F", "G", "H", "I", "J", "K", "L", "M",
      "N", "O", "P", "Q", "R", "S", "T", "U", "V", "W", "X", "Y", "Z">>

upper(c) == IF c \in LowerChars
                THEN UpperSeq[CHOOSE i \in 1..26 : LowerSeq[i] = c] ELSE c
lower(c) == IF c \in UpperChars
                THEN LowerSeq[CHOOSE i \in 1..26 : UpperSeq[i] = c] ELSE c

RECURSIVE lstrip(_)
lstrip(s) == IF s # <<>> /\ s[1] \in SpaceChars THEN lstrip(Tail(s)) ELSE s

RECURSIVE rstrip(_)
rstrip(s) ==
    IF s # <<>> /\ s[Len(s)] \in SpaceChars
        THEN rstrip(SubSeq(s, 1, Len(s) - 1)) ELSE s

strip(s) == rstrip(lstrip(s))

IsDigitOrPlus(c) == c \in DigitChars \cup {"+"}
IsDigit(c) == c \in DigitChars

startswith(s, c) == s # <<>> /\ s[1] = c
removeprefix(s, c) == IF startswith(s, c) THEN Tail(s) ELSE s

\* normalize_phone, statement by statement; phone is None or Some(string).
normalize_phone(phone) ==
    IF phone = None THEN None
    ELSE IF Get(phone) = <<>> THEN None
    ELSE
    LET raw == Get(phone)
        original_first_char == IF strip(raw) # <<>> THEN strip(raw)[1] ELSE ""
        cleaned == SelectSeq(raw, IsDigitOrPlus)
    IN  IF original_first_char = "+" /\ ~startswith(cleaned, "7") THEN None
        ELSE
        LET digits == SelectSeq(IF original_first_char = "+"
                                    THEN removeprefix(cleaned, "7")
                                    ELSE cleaned, IsDigit)
            digit_count == Len(digits)
            last11 == SubSeq(digits, digit_count - 10, digit_count)
            last10 == SubSeq(digits, digit_count - 9, digit_count)
        IN  IF digits = <<>> THEN None
            ELSE IF digit_count = 11
                THEN IF startswith(digits, "7") THEN Some(<<"+">> \o digits)
                     ELSE IF startswith(digits, "8")
                        THEN Some(<<"+", "7">> \o Tail(digits))
                     ELSE None
            ELSE IF digit_count = 10 THEN Some(<<"+", "7">> \o digits)
            ELSE IF digit_count > 11
                THEN IF startswith(last11, "7") THEN Some(<<"+">> \o last11)
                     ELSE IF startswith(last11, "8")
                        THEN Some(<<"+", "7">> \o Tail(last11))
                     ELSE Some(<<"+", "7">> \o last10)
            ELSE None

\* " ".join(value.split()): runs of whitespace become one space.
RECURSIVE join_split(_)
join_split(s) ==
    IF Len(s) < 2 THEN s
    ELSE IF s[1] \in SpaceChars /\ s[2] \in SpaceChars THEN join_split(Tail(s))
    ELSE IF s[1] \in SpaceChars THEN <<" ">> \o join_split(Tail(s))
    ELSE <<s[1]>> \o join_split(Tail(s))

\* str.title(): a letter after a non-letter is upper case, any other lower.
title(s) ==
    [i \in 1..Len(s) |->
        IF i = 1 \/ s[i - 1] \notin LowerChars \cup UpperChars
            THEN upper(s[i]) ELSE lower(s[i])]

normalize_name(value) ==
    IF value = None THEN None
    ELSE LET normalized == join_split(strip(Get(value)))
         IN  IF normalized = <<>> THEN None ELSE Some(title(normalized))

----------------------------------------------------------------------------
(* Login through Yandex: AuthService.get_yandex_auth, one step per await *)

MIN_USER_NAME_LENGTH == 2
MAX_USER_NAME_LENGTH == 30

TypeError ==
    [cls |-> "TypeError", app |-> FALSE, status_code |-> 500,
     error_type |-> "TypeError",
     detail |-> "'password' is an invalid keyword argument for UserProfile"]

ValidationError ==
    [cls |-> "ValidationError", app |-> FALSE, status_code |-> 500,
     error_type |-> "ValidationError", detail |-> "string_too_short"]

\* Raised by the repositories; AuthService calls them directly and catches nothing.
IntegrityError ==
    [cls |-> "IntegrityError", app |-> FALSE, status_code |-> 500,
     error_type |-> "IntegrityError", detail |-> "duplicate key value violates unique constraint"]

\* Attributes of the mapped class, and the keys of CreateUserProfileSchema.model_dump().
UserProfileColumns ==
    {"id", "phone", "phone_verified", "first_name", "last_name", "patronymic",
     "birthday", "email", "email_verified", "hashed_password", "about", "role",
     "is_active", "created_at", "updated_at",
     "categories", "tasks", "tags", "oauth_accounts"}
CreateUserProfileSchemaFields ==
    {"phone", "first_name", "last_name", "patronymic", "birthday", "email",
     "about", "password"}

PROFILE_FIELDS_TO_ENRICH == {"first_name", "last_name", "birthday", "email"}

name_field(value) ==
    \/ value = None
    \/ Len(Get(value)) \in MIN_USER_NAME_LENGTH..MAX_USER_NAME_LENGTH

\* The two schemas made from the provider's answer.
yandex_to_user_and_oauth(data) ==
    LET phone == IF data.default_phone = None THEN None
                 ELSE normalize_phone(data.default_phone)
    IN  [user |-> [phone |-> phone,
                   first_name |-> normalize_name(data.first_name),
                   last_name |-> normalize_name(data.last_name),
                   birthday |-> data.birthday,
                   email |-> Some(data.default_email),
                   patronymic |-> None, about |-> None, password |-> None],
         oauth |-> [provider |-> "yandex", provider_user_id |-> data.id,
                    phone |-> phone,
                    first_name |-> normalize_name(data.first_name),
                    last_name |-> normalize_name(data.last_name),
                    birthday |-> data.birthday,
                    email |-> Some(data.default_email)]]

get_by_provider_user(provider, provider_user_id) ==
    LET rows == {a \in DOMAIN oauth_accounts :
                    /\ oauth_accounts[a].provider = provider
                    /\ oauth_accounts[a].provider_user_id = provider_user_id}
    IN  IF rows = {} THEN None ELSE Some(oauth_accounts[CHOOSE a \in rows : TRUE])

\* The empty string of a field's type.
EmptyString(field) == IF field \in {"first_name", "last_name"} THEN <<>> ELSE ""

\* The keys of update_data: the local value is None and the provider's
\* value is neither None nor "".
update_data(user, user_schema) ==
    {field \in PROFILE_FIELDS_TO_ENRICH :
        /\ user[field] = None
        /\ user_schema[field] # None
        /\ Get(user_schema[field]) # EmptyString(field)}

\* An update that also copies the schema's password (None) into the hash.
update_object_with_password(row, keys, user_schema) ==
    [column \in DOMAIN row |->
        IF column \in keys THEN user_schema[column]
        ELSE IF column = "email_verified" /\ "email" \in keys THEN FALSE
        ELSE IF column = "hashed_password" THEN user_schema.password
        ELSE row[column]]

\* UserRepository.update_object for the keys of the enrichment (phone is not
\* among them): setattr for each key, email_verified reset with email.
update_object(row, keys, user_schema) ==
    [column \in DOMAIN row |->
        IF column \in keys THEN user_schema[column]
        ELSE IF column = "email_verified" /\ "email" \in keys THEN FALSE
        ELSE row[column]]

\* Answers of the provider.  An account whose number is the one of user 1:
YandexIvan ==
    [id |-> "ya-1", first_name |-> Some(<<"i", "v", "a", "n">>),
     last_name |-> Some(<<"P", "E", "T", "R", "O", "V">>),
     birthday |-> Some("1990-05-17"),
     default_phone |-> Some(<<"8", "9", "1", "8", "1", "1", "1", "1", "1", "1", "1">>),
     default_email |-> "ivan@yandex.ru"]
\* the same account after its owner changed the profile and dropped the number:
YandexIvanChanged ==
    [id |-> "ya-1", first_name |-> Some(<<"j", "o", "h", "n">>),
     last_name |-> None,
     birthday |-> None,
     default_phone |-> None,
     default_email |-> "john@yandex.ru"]
\* another account with the number of user 1:
YandexOlga ==
    [id |-> "ya-2", first_name |-> Some(<<"o", "l", "g", "a">>),
     last_name |-> Some(<<"s", "i", "d", "o", "r", "o", "v", "a">>),
     birthday |-> Some("1985-01-02"),
     default_phone |-> Some(<<"8", " ", "(", "9", "1", "8", ")", " ", "1", "1", "1", "-", "1", "1", "-", "1", "1">>),
     default_email |-> "olga@yandex.ru"]
\* an account with the number of user 2 and the e-mail address of user 1:
YandexAnn ==
    [id |-> "ya-3", first_name |-> None,
     last_name |-> None,
     birthday |-> None,
     default_phone |-> Some(<<"9", "1", "8", "2", "2", "2", "2", "2", "2", "2">>),
     default_email |-> "ann@example.com"]
\* an account whose number, as Yandex writes it, belongs to no user:
YandexPetr ==
    [id |-> "ya-4", first_name |-> Some(<<"p", "e", "t", "r">>),
     last_name |-> None,
     birthday |-> None,
     default_phone |-> Some(<<"+", "7", "9", "9", "9", "3", "3", "3", "4", "4", "5", "5">>),
     default_email |-> "petr@yandex.ru"]

YandexProfiles == {YandexIvan, YandexIvanChanged, YandexOlga, YandexAnn, YandexPetr}

\* The table before the first callback: user 1 has a first name.
OAuthSeedUsers ==
    [RegisteredUsers EXCEPT ![1].first_name = Some(<<"A", "n", "n">>)]

InitOAuth ==
    /\ users = OAuthSeedUsers
    /\ cache = EmptyMap
    /\ nextUuid = 1
    /\ pc = [p \in Tasks |-> "idle"]
    /\ loc = [p \in Tasks |-> IdleLoc]
    /\ resp = NoResp
    /\ outbox = {}
    /\ issued = EmptyMap
    /\ minted = EmptyMap
    /\ updates = EmptyMap
    /\ nextUserId = 3
    /\ now = 0
    /\ held = None
    /\ registered = EmptyMap
    /\ oauth_accounts = EmptyMap

oauthFrame == <<cache, nextUuid, outbox, issued, minted, updates, now, held, registered>>

\* The handler of task p returns a token or raises.
FinishOAuth(p, l, http, cause, jwt, uid) ==
    /\ pc' = [pc EXCEPT ![p] = "idle"]
    /\ loc' = [loc EXCEPT ![p] = IdleLoc]
    /\ resp' = [NoResp EXCEPT
                    !.op = l.op, !.status = http.status, !.error = http.error,
                    !.detail = http.detail, !.late = l.late, !.cause = cause,
                    !.profile = l.profile, !.jwt = jwt, !.uid = uid]

\* access_token for user.id, returned as AccessTokenSchema.
ReturnToken(p, l, cause, user_id) ==
    FinishOAuth(p, l, Ok200, cause,
                Some(create_access_token([sub |-> IntToStr(user_id)], now)),
                Some(user_id))

\* GET /auth/yandex: get_user_info, the mapper, get_by_provider_user.
get_yandex_auth(p, data) ==
    LET schemas == yandex_to_user_and_oauth(data)
        oauth_user_or_none ==
            get_by_provider_user(schemas.oauth.provider, schemas.oauth.provider_user_id)
        l == [IdleLoc EXCEPT !.op = "oauth", !.profile = Some(schemas),
                             !.late = oauth_user_or_none # None]
    IN  /\ FreeSlot(p)
        /\ IF ~(name_field(schemas.user.first_name) /\ name_field(schemas.user.last_name))
              THEN FinishOAuth(p, l, app_exception_handler(ValidationError),
                               "mapper", None, None)
           ELSE IF oauth_user_or_none # None
              THEN Goto(p, "oauth_get_object",
                        [l EXCEPT !.uid = Some(Get(oauth_user_or_none).user_id)])
           ELSE IF schemas.user.phone # None
              THEN Goto(p, "oauth_get_by_phone", l)
           ELSE Goto(p, "oauth_create_user", l)
        /\ UNCHANGED <<users, nextUserId, oauth_accounts, oauthFrame>>

\* A re-authentication that refreshes the link's copy of the profile.
oauth_get_object_refreshing(p) ==
    /\ pc[p] = "oauth_get_object"
    /\ LET oauth_schema == Get(loc[p].profile).oauth
           link == Get(get_by_provider_user(oauth_schema.provider,
                                            oauth_schema.provider_user_id))
       IN  oauth_accounts' = [oauth_accounts EXCEPT ![link.id].email = oauth_schema.email]
    /\ ReturnToken(p, loc[p], "get_object", users[Get(loc[p].uid)].id)
    /\ UNCHANGED <<users, nextUserId, oauthFrame>>

\* The link exists: user_repo.get_object, then the token.
oauth_get_object(p) ==
    /\ pc[p] = "oauth_get_object"
    /\ IF Get(loc[p].uid) \in DOMAIN users
          THEN ReturnToken(p, loc[p], "get_object", users[Get(loc[p].uid)].id)
          ELSE FinishOAuth(p, loc[p], app_exception_handler(AttributeError),
                           "get_object", None, None)
    /\ UNCHANGED <<users, nextUserId, oauth_accounts, oauthFrame>>

\* No link: user_repo.get_by_phone, then the keys of update_data.
oauth_get_by_phone(p) ==
    /\ pc[p] = "oauth_get_by_phone"
    /\ LET user == get_by_phone(Get(Get(loc[p].profile).user.phone))
       IN  IF user = None THEN Goto(p, "oauth_create_user", loc[p])
           ELSE IF update_data(Get(user), Get(loc[p].profile).user) # {}
              THEN Goto(p, "oauth_update_user",
                        [loc[p] EXCEPT !.user = user, !.uid = Some(Get(user).id)])
           ELSE Goto(p, "oauth_create_account",
                     [loc[p] EXCEPT !.user = user, !.uid = Some(Get(user).id)])
    /\ UNCHANGED <<users, nextUserId, oauth_accounts, oauthFrame>>

\* An insert of the user schema that the mapped class accepts and no
\* constraint guards.
oauth_create_user_unchecked(p) ==
    /\ pc[p] = "oauth_create_user"
    /\ LET user_schema == Get(loc[p].profile).user
       IN  /\ users' = users @@ (nextUserId :>
                    [UserProfile(nextUserId, user_schema.phone, user_schema.email, None)
                        EXCEPT !.first_name = user_schema.first_name,
                               !.last_name = user_schema.last_name,
                               !.birthday = user_schema.birthday])
           /\ nextUserId' = nextUserId + 1
           /\ Goto(p, "oauth_create_account", [loc[p] EXCEPT !.uid = Some(nextUserId)])
    /\ UNCHANGED <<oauth_accounts, oauthFrame>>

\* No user: user_repo.create_object(data=user_schema), that is
\* UserProfile(**user_schema.model_dump()) and the insert.
oauth_create_user(p) ==
    /\ pc[p] = "oauth_create_user"
    /\ LET user_schema == Get(loc[p].profile).user
       IN  IF CreateUserProfileSchemaFields \ UserProfileColumns # {}
              THEN /\ FinishOAuth(p, loc[p], app_exception_handler(TypeError),
                                  "create_user", None, None)
                   /\ UNCHANGED <<users, nextUserId>>
           ELSE IF unique_violation(users, user_schema.phone, user_schema.email)
              THEN /\ FinishOAuth(p, loc[p], app_exception_handler(IntegrityError),
                                  "create_user", None, None)
                   /\ UNCHANGED <<users, nextUserId>>
           ELSE /\ users' = users @@ (nextUserId :>
                    [UserProfile(nextUserId, user_schema.phone, user_schema.email, None)
                        EXCEPT !.first_name = user_schema.first_name,
                               !.last_name = user_schema.last_name,
                               !.birthday = user_schema.birthday])
                /\ nextUserId' = nextUserId + 1
                /\ Goto(p, "oauth_create_account",
                        [loc[p] EXCEPT !.uid = Some(nextUserId)])
    /\ UNCHANGED <<oauth_accounts, oauthFrame>>

\* A user was found and update_data is not empty: user_repo.update_object.
oauth_update_user(p) ==
    /\ pc[p] = "oauth_update_user"
    /\ LET user_schema == Get(loc[p].profile).user
           user == Get(loc[p].user)
           keys == update_data(user, user_schema)
       IN  IF user.id \notin DOMAIN users
              THEN /\ Goto(p, "oauth_create_account", loc[p])
                   /\ UNCHANGED users
           ELSE IF /\ "email" \in keys
                   /\ \E u \in DOMAIN users \ {user.id} : users[u].email = user_schema.email
              THEN /\ FinishOAuth(p, loc[p], app_exception_handler(IntegrityError),
                                  "update_user", None, None)
                   /\ UNCHANGED users
           ELSE /\ users' = [users EXCEPT
                                ![user.id] = update_object(@, keys, user_schema)]
                /\ Goto(p, "oauth_create_account", loc[p])
    /\ UNCHANGED <<nextUserId, oauth_accounts, oauthFrame>>

\* auth_repo.create_object(OAuthCreateORM), then the token.
oauth_create_account(p) ==
    /\ pc[p] = "oauth_create_account"
    /\ LET oauth_schema == Get(loc[p].profile).oauth
           id == Cardinality(DOMAIN oauth_accounts) + 1
       IN  IF get_by_provider_user(oauth_schema.provider,
                                   oauth_schema.provider_user_id) # None
              THEN /\ FinishOAuth(p, loc[p], app_exception_handler(IntegrityError),
                                  "create_account", None, None)
                   /\ UNCHANGED oauth_accounts
           ELSE /\ oauth_accounts' = oauth_accounts @@ (id :>
                    [id |-> id, provider |-> oauth_schema.provider,
                     provider_user_id |-> oauth_schema.provider_user_id,
                     phone |-> oauth_schema.phone,
                     first_name |-> oauth_schema.first_name,
                     last_name |-> oauth_schema.last_name,
                     birthday |-> oauth_schema.birthday,
                     email |-> oauth_schema.email,
                     user_id |-> Get(loc[p].uid)])
                /\ ReturnToken(p, loc[p], "create_account", Get(loc[p].uid))
    /\ UNCHANGED <<users, nextUserId, oauthFrame>>

NextOAuth ==
    \/ \E p \in Tasks, data \in YandexProfiles : get_yandex_auth(p, data)
    \/ \E p \in Tasks : oauth_get_object(p)
    \/ \E p \in Tasks : oauth_get_by_phone(p)
    \/ \E p \in Tasks : oauth_create_user(p)
    \/ \E p \in Tasks : oauth_update_user(p)
    \/ \E p \in Tasks : oauth_create_account(p)
    \/ \E ph \in RegisterPhones, e \in RegisterEmails :
            create_user(ph, e, Some(Password1), "salt1")

SpecOAuth == InitOAuth /\ [][NextOAuth]_vars

\* Callbacks, registrations and password calls over a table whose second
\* user has no local password and is linked.
InitLinked == InitPassword

\* A re-authentication of the linked identity, a first callback that finds
\* user 1 by phone, and one that finds no user.
LinkedProfiles == {YandexAnn, YandexIvan, YandexPetr}
LinkedPasswords == {Password1, WeakPassword}

NextLinked ==
    \/ \E p \in Tasks, data \in LinkedProfiles : get_yandex_auth(p, data)
    \/ \E p \in Tasks : oauth_get_object(p)
    \/ \E p \in Tasks : oauth_get_by_phone(p)
    \/ \E p \in Tasks : oauth_create_user(p)
    \/ \E p \in Tasks : oauth_update_user(p)
    \/ \E p \in Tasks : oauth_create_account(p)
    \/ \E pw \in {None, Some(Password1)} : create_user(Phone3, Email3, pw, "salt1")
    \/ \E p \in Tasks, u \in DOMAIN users, pw \in LinkedPasswords : set_password(p, u, pw)
    \/ \E p \in Tasks : set_update_user_password(p, "salt1")
    \/ \E p \in Tasks, u \in DOMAIN users :
            change_password(p, u, Password0, Password1)
    \/ \E p \in Tasks : change_update_user_password(p, "salt1")

SpecLinked == InitLinked /\ [][NextLinked]_vars

----------------------------------------------------------------------------
(* PATCH /users/me *)

\* Assigning an attribute that is not a field of the pydantic model.
ValueError ==
    [cls |-> "ValueError", app |-> FALSE, status_code |-> 500,
     error_type |-> "ValueError", detail |-> "object has no field"]

UpdateUserProfileSchemaFields ==
    {"phone", "first_name", "last_name", "patronymic", "birthday", "email",
     "about", "email_verified"}

\* A request body: keys is the set of fields the client sent (the fields
\* model_dump(exclude_unset=True) returns), the other fields are defaults.
Body(keys, phone, first_name, email, email_verified) ==
    [keys |-> keys, phone |-> phone, first_name |-> first_name,
     email |-> email, email_verified |-> email_verified]

\* Validation of the body: phone has exactly 12 characters, a name has
\* MIN_USER_NAME_LENGTH..MAX_USER_NAME_LENGTH characters; None passes.
UpdateUserProfileSchema(body) ==
    IF \/ body.phone # None /\ Len(Get(body.phone)) # 12
       \/ body.first_name # None /\ ~name_field(body.first_name)
       \/ ~(body.keys \subseteq UpdateUserProfileSchemaFields)
        THEN Some(RequestValidationError)
    ELSE None

ShortPhone == <<"1", "2", "3">>
NameBob == <<"B", "o", "b">>

\* The bodies a client sends: a field that is not sent has its default.
UpdateBodies ==
    {Body(k, IF "phone" \in k THEN Some(ph) ELSE None,
             IF "first_name" \in k THEN Some(NameBob) ELSE None,
             IF "email" \in k THEN e ELSE None,
             IF "email_verified" \in k THEN ev ELSE None) :
        k \in SUBSET {"phone", "first_name", "email", "email_verified"},
        ph \in {Phone3, ShortPhone},
        e \in {None, Email1},
        ev \in {None, Some(TRUE), Some(FALSE)}}

\* The rows before the first request: user 1 may have verified contacts.
InitUpdate ==
    /\ \E pv, ev \in BOOLEAN :
            users = [SeedUsers(TRUE, TRUE) EXCEPT ![1].phone_verified = pv,
                                                  ![1].email_verified = ev]
    /\ cache = EmptyMap
    /\ nextUuid = 1
    /\ pc = [p \in Tasks |-> "idle"]
    /\ loc = [p \in Tasks |-> IdleLoc]
    /\ resp = NoResp
    /\ outbox = {}
    /\ issued = EmptyMap
    /\ minted = EmptyMap
    /\ updates = EmptyMap
    /\ nextUserId = 3
    /\ now = 0
    /\ held = None
    /\ registered = EmptyMap
    /\ oauth_accounts = SeedLinks

UpdateResp(http, uid, body) ==
    [NoResp EXCEPT !.op = "update_me", !.status = http.status,
                   !.error = http.error, !.detail = http.detail,
                   !.uid = Some(uid), !.body = Some(body)]

\* UserRepository.update_object up to the call of the base class: the
\* exception the assignments raise, or the body passed on.
reset_verification(body) ==
    IF "phone" \in body.keys THEN [exc |-> Some(ValueError), body |-> body]
    ELSE IF "email" \in body.keys
        THEN [exc |-> None,
              body |-> [body EXCEPT !.keys = @ \cup {"email_verified"},
                                    !.email_verified = Some(FALSE)]]
    ELSE [exc |-> None, body |-> body]

\* CRUDRepository.update_object: setattr for every key of the dump.
setattrs(row, body) ==
    [row EXCEPT
        !.first_name = IF "first_name" \in body.keys THEN body.first_name ELSE @,
        !.email = IF "email" \in body.keys THEN body.email ELSE @,
        !.email_verified = IF "email_verified" \in body.keys
                              THEN Get(body.email_verified) ELSE @]

\* The constraints the commit of an update checks: email_verified is NOT
\* NULL, email is unique among the other rows.
update_violation(table, object_id, body) ==
    \/ "email_verified" \in body.keys /\ body.email_verified = None
    \/ /\ "email" \in body.keys /\ body.email # None
       /\ \E u \in DOMAIN table \ {object_id} : table[u].email = body.email

\* PATCH /users/me for the authenticated user current_user_id.
update_me(current_user_id, body) ==
    LET invalid == UpdateUserProfileSchema(body)
        r == reset_verification(body)
        answer(http) == resp' = UpdateResp(http, current_user_id, body)
    IN  /\ IF invalid # None
              THEN answer(app_exception_handler(Get(invalid))) /\ UNCHANGED users
           ELSE IF r.exc # None
              THEN answer(app_exception_handler(Get(r.exc))) /\ UNCHANGED users
           ELSE IF current_user_id \notin DOMAIN users
              THEN /\ answer(app_exception_handler(ObjectNotFoundError))
                   /\ UNCHANGED users
           ELSE IF update_violation(users, current_user_id, r.body)
              THEN answer(app_exception_handler(IntegrityDBError)) /\ UNCHANGED users
           ELSE /\ users' = [users EXCEPT ![current_user_id] = setattrs(@, r.body)]
                /\ answer(Ok200)
        /\ UNCHANGED <<recoveryVars, authVars>>

NextUpdate ==
    \E u \in DOMAIN users, b \in UpdateBodies : update_me(u, b)

SpecUpdate == InitUpdate /\ [][NextUpdate]_vars

\* Every operation that writes a user row, over one table: profile updates,
\* callbacks, password calls and the reset that ends a forgot-password run.
\* The run has come as far as its reset token: recovery id 1 of user 1 was
\* verified and token 2 is in the cache.
InitPasswordKept ==
    /\ users = SeedUsers(TRUE, TRUE)
    /\ cache = CacheSet(EmptyMap, TokenKey(2), IntToStr(1))
    /\ nextUuid = 3
    /\ pc = [p \in Tasks |-> "idle"]
    /\ loc = [p \in Tasks |-> IdleLoc]
    /\ resp = NoResp
    /\ outbox = {[to |-> users[1].email, code |-> CodeBase, rid |-> 1]}
    /\ issued = 1 :> [user |-> Some(1), code |-> CodeBase]
    /\ minted = 2 :> [rid |-> 1, uid |-> 1]
    /\ updates = 2 :> 0
    /\ nextUserId = 3
    /\ now = 0
    /\ held = None
    /\ registered = EmptyMap
    /\ oauth_accounts = SeedLinks

KeptBodies ==
    {Body({"first_name"}, None, Some(NameBob), None, None),
     Body({"email", "email_verified"}, None, None, Email3, Some(TRUE))}

NextPasswordKept ==
    \/ \E b \in KeptBodies : update_me(1, b)
    \/ \E p \in Tasks, data \in {YandexIvan, YandexPetr} : get_yandex_auth(p, data)
    \/ \E p \in Tasks : oauth_get_object(p)
    \/ \E p \in Tasks : oauth_get_by_phone(p)
    \/ \E p \in Tasks : oauth_create_user(p)
    \/ \E p \in Tasks : oauth_update_user(p)
    \/ \E p \in Tasks : oauth_create_account(p)
    \/ \E p \in Tasks : set_password(p, 2, Password1)
    \/ \E p \in Tasks : set_update_user_password(p, "salt1")
    \/ \E p \in Tasks : change_password(p, 1, Password0, Password1)
    \/ \E p \in Tasks : change_update_user_password(p, "salt1")
    \/ \E p \in Tasks : reset_get_recovery_token(p, 2, Password2)
    \/ \E p \in Tasks : reset_delete_recovery_token(p)
    \/ \E p \in Tasks : reset_update_user_password(p, "salt1")

SpecPasswordKept == InitPasswordKept /\ [][NextPasswordKept]_vars

----------------------------------------------------------------------------
(* The bearer token over the life of an account *)

AccessDenied ==
    [cls |-> "AccessDenied", app |-> TRUE, status_code |-> 403,
     error_type |-> "AccessDenied", detail |-> "Access denied"]

NoContent204 == [status |-> 204, error |-> "", detail |-> ""]

\* A token that was not signed with the key of the application.
ForgedToken == [sub |-> IntToStr(1), exp |-> MaxTime + JWT_LIFE_SPAN, key |-> "otherkey"]

\* Two accounts with a local password, the second one a root.
InitToken ==
    /\ users = [RegisteredUsers EXCEPT ![2].role = "root"]
    /\ cache = EmptyMap
    /\ nextUuid = 1
    /\ pc = [p \in Tasks |-> "idle"]
    /\ loc = [p \in Tasks |-> IdleLoc]
    /\ resp = NoResp
    /\ outbox = {}
    /\ issued = EmptyMap
    /\ minted = EmptyMap
    /\ updates = EmptyMap
    /\ nextUserId = 3
    /\ now = 0
    /\ held = None
    /\ registered = EmptyMap
    /\ oauth_accounts = EmptyMap

\* A request to a protected endpoint with a token the server never issued.
get_current_user_forged ==
    /\ LET r == current_user_of(ForgedToken)
       IN  resp' = AuthResp("me", r.http, <<>>, <<>>, Some(ForgedToken), r.uid)
    /\ UNCHANGED <<users, recoveryVars, authVars>>

require_role(current_user, allowed_roles) == current_user.role \in allowed_roles

\* DELETE /users/delete/{user_id} by the authenticated user current_user_id.
delete_user(current_user_id, user_id) ==
    LET answer(http) ==
            [NoResp EXCEPT !.op = "delete", !.status = http.status,
                           !.error = http.error, !.detail = http.detail,
                           !.uid = Some(user_id)]
    IN  /\ current_user_id \in DOMAIN users
        /\ IF ~require_role(users[current_user_id], {"root"})
              THEN /\ resp' = answer(app_exception_handler(AccessDenied))
                   /\ UNCHANGED users
           ELSE IF user_id \notin DOMAIN users
              THEN /\ resp' = answer(app_exception_handler(ObjectNotFoundError))
                   /\ UNCHANGED users
           ELSE /\ users' = [u \in DOMAIN users \ {user_id} |-> users[u]]
                /\ resp' = answer(NoContent204)
        /\ UNCHANGED <<recoveryVars, authVars>>

TokenPhones == {Phone1, Phone2}
TokenPasswords == {Password0, Password1}

NextToken ==
    \/ \E ph \in TokenPhones, pw \in TokenPasswords : login(ph, pw)
    \/ get_current_user
    \/ get_current_user_forged
    \/ Tick
    \/ \E p \in Tasks, u \in DOMAIN users, old \in OldPasswords :
            change_password(p, u, old, Password1)
    \/ \E p \in Tasks, s \in RecoverySalts : change_update_user_password(p, s)
    \/ \E a \in DOMAIN users, u \in 1..2 : delete_user(a, u)

SpecToken == InitToken /\ [][NextToken]_vars

\* The forgot-password flow while a root deletes users.
NextResetDeleted ==
    \/ \E a \in DOMAIN users : delete_user(a, 1)
    \/ Next

SpecResetDeleted == InitToken /\ [][NextResetDeleted]_vars

----------------------------------------------------------------------------
(* The hasher on its own *)

MaxSecretLen == 2
SecretChars == {"a", "B", "1"}

\* Every string over SecretChars of at most MaxSecretLen characters.
Secrets ==
    UNION {[1..n -> SecretChars] : n \in 0..MaxSecretLen}

InitHash ==
    /\ users = EmptyMap
    /\ cache = EmptyMap
    /\ nextUuid = 1
    /\ pc = [p \in Tasks |-> "idle"]
    /\ loc = [p \in Tasks |-> IdleLoc]
    /\ resp = NoResp
    /\ outbox = {}
    /\ issued = EmptyMap
    /\ minted = EmptyMap
    /\ updates = EmptyMap
    /\ nextUserId = 1
    /\ now = 0
    /\ held = None
    /\ registered = EmptyMap
    /\ oauth_accounts = EmptyMap

\* hashed = get_password_hash(secret); verify_password(plain, hashed).
hash_then_verify(plain_password, secret, salt) ==
    LET hashed_password == get_password_hash(secret, salt)
    IN  /\ resp' = [NoResp EXCEPT
                        !.op = "verify", !.pw = plain_password, !.old = secret,
                        !.json = Some([hashed_password |-> hashed_password,
                                       returned |-> verify_password(plain_password,
                                                                    hashed_password),
                                       raised |-> verify_password_raises(plain_password,
                                                                         hashed_password)])]
        /\ UNCHANGED <<users, recoveryVars, authVars>>

NextHash ==
    \E plain_password, secret \in Secrets, salt \in Salts :
        hash_then_verify(plain_password, secret, salt)

SpecHash == InitHash /\ [][NextHash]_vars

----------------------------------------------------------------------------
(* normalize_phone on its own *)

\* Ten-digit national numbers.
NationalNumbers ==
    {<<"9", a, b, "1", "1", "1", "1", "1", "1", "1">> : a, b \in {"1", "2", "8", "9"}}

PhoneForms ==
    {"+7XXXXXXXXXX", "7XXXXXXXXXX", "8XXXXXXXXXX", "XXXXXXXXXX",
     "+7 (XXX) XXX-XX-XX", "8 (XXX) XXX-XX-XX", "XXX XXX XX XX"}

\* The raw forms of the docstring of normalize_phone for the number n.
RawPhone(n, form) ==
    LET punct == <<" ", "(">> \o SubSeq(n, 1, 3) \o <<")", " ">> \o SubSeq(n, 4, 6)
                    \o <<"-">> \o SubSeq(n, 7, 8) \o <<"-">> \o SubSeq(n, 9, 10)
    IN  CASE form = "+7XXXXXXXXXX" -> <<"+", "7">> \o n
          [] form = "7XXXXXXXXXX" -> <<"7">> \o n
          [] form = "8XXXXXXXXXX" -> <<"8">> \o n
          [] form = "XXXXXXXXXX" -> n
          [] form = "+7 (XXX) XXX-XX-XX" -> <<"+", "7">> \o punct
          [] form = "8 (XXX) XXX-XX-XX" -> <<"8">> \o punct
          [] form = "XXX XXX XX XX" ->
                SubSeq(n, 1, 3) \o <<" ">> \o SubSeq(n, 4, 6) \o <<" ">>
                    \o SubSeq(n, 7, 8) \o <<" ">> \o SubSeq(n, 9, 10)

InitNormalize == InitHash

\* normalize_phone(raw), and normalize_phone of what it returned.
normalize(n, form) ==
    LET once == normalize_phone(Some(RawPhone(n, form)))
    IN  /\ resp' = [NoResp EXCEPT
                        !.op = "normalize", !.phone = RawPhone(n, form),
                        !.json = Some([number |-> n, form |-> form, once |-> once,
                                       twice |-> normalize_phone(once)])]
        /\ UNCHANGED <<users, recoveryVars, authVars>>

NextNormalize ==
    \E n \in NationalNumbers, form \in PhoneForms : normalize(n, form)

SpecNormalize == InitNormalize /\ [][NextNormalize]_vars

----------------------------------------------------------------------------
(* Login and recovery requests that carry a phone as the client typed it *)

\* The national number of the first registered user.
National1 == SubSeq(Phone1, 3, 12)

\* POST /auth/login (form_data.username) and POST /reset_password_via_email
\* (body.phone) hand the string of the request to the service.
NextRawPhone ==
    \/ \E form \in PhoneForms, pw \in LoginPasswords :
            login(RawPhone(National1, form), pw)
    \/ \E p \in Tasks, form \in PhoneForms, r \in RandBelow, s \in RecoverySalts :
            send_recovery_code_via_email(p, RawPhone(National1, form), r, s)
    \/ \E p \in Tasks : send_set_recovery_session(p)
    \/ \E p \in Tasks : send_set_recovery_password_code(p)
    \/ \E p \in Tasks, d \in BOOLEAN : send_password_recovery_email(p, d)
    \/ \E k \in DOMAIN cache : Expire(k)

SpecRawPhone == InitAuth /\ [][NextRawPhone]_vars

----------------------------------------------------------------------------
(* Properties of the forgot-password flow *)

HttpError(r) == [status |-> r.status, error |-> r.error, detail |-> r.detail]

GenericCodeFailure ==
    [status |-> 401, error |-> "InvalidCredentials", detail |-> InvalidOrExpiredDetail]

\* C1: a check_recovery_code call that starts after a call for the same
\* recovery_id has returned a reset token fails with the generic
\* invalid-or-expired 401 and mints nothing: it ends at the two cache reads
\* and never reaches the deletes or set_recovery_token.
C1_RecoveryCodeSingleUse ==
    /\ (resp.op = "check" /\ resp.late) =>
            (HttpError(resp) = GenericCodeFailure /\ resp.tok = 0)
    /\ \A p \in Tasks :
            (loc[p].op = "check" /\ loc[p].late) => pc[p] = "check_get_session"

\* A later call with the correct code of a session of an existing user has
\* been answered.
C1_Witness ==
    /\ resp.op = "check" /\ resp.late /\ resp.status = 401
    /\ issued[resp.rid].user # None
    /\ resp.code = issued[resp.rid].code

\* C2: no recovery_id ever yields two reset tokens, however the
\* check_recovery_code calls for it interleave.
C2_AtMostOneTokenPerRecoveryId ==
    \A t1, t2 \in DOMAIN minted : minted[t1].rid = minted[t2].rid => t1 = t2

\* C3: a reset_password_via_token call that starts after a call with the
\* same token has succeeded fails with InvalidResetToken (403) and writes no
\* password: it ends at get_recovery_token.
C3_ResetTokenSingleUse ==
    /\ (resp.op = "reset" /\ resp.late) =>
            (resp.status = 403 /\ resp.error = "InvalidResetToken" /\ ~resp.wrote)
    /\ \A p \in Tasks : ~(loc[p].op = "reset" /\ loc[p].late)

C3_Witness ==
    resp.op = "reset" /\ resp.late /\ resp.status = 403 /\ resp.tok \in Consumed

\* C4: with one reset token at most one password update is performed,
\* however the reset_password_via_token calls carrying it interleave.
C4_AtMostOneUpdatePerToken ==
    \A t \in DOMAIN updates : updates[t] <= 1

\* C5: a recovery request whose phone matches no user is answered 200 with
\* a recovery_id for which the cache holds neither a session nor a code, no
\* e-mail was sent and no token is minted; every check_recovery_code on that
\* id gets the generic 401.
C5_UnknownPhoneLeavesNoTrace ==
    \A r \in DOMAIN issued :
        issued[r].user = None =>
            /\ SessionKey(r) \notin DOMAIN cache
            /\ CodeKey(r) \notin DOMAIN cache
            /\ \A m \in outbox : m.rid # r
            /\ \A t \in DOMAIN minted : minted[t].rid # r
            /\ \A p \in Tasks : loc[p].rid = r => loc[p].hashed = None \/ loc[p].op = "send"
            /\ (resp.op = "send" /\ resp.rid = r) => resp.status = 200
            /\ (resp.op = "check" /\ resp.rid = r) => HttpError(resp) = GenericCodeFailure

C5_Witness ==
    /\ resp.op = "check" /\ resp.status = 401
    /\ resp.rid \in DOMAIN issued /\ issued[resp.rid].user = None

\* C6: every recovery request is answered 200 with a recovery_id, whether
\* or not the phone belongs to a user and whether or not the e-mail could
\* be delivered.
C6_RecoveryRequestAlwaysOk ==
    resp.op = "send" => (resp.status = 200 /\ resp.rid \in DOMAIN issued)

\* C7: every failure of check_recovery_code is the same response (status,
\* error type and detail), whatever made the call fail.
C7_CheckFailuresIndistinguishable ==
    (resp.op = "check" /\ resp.status # 200) => HttpError(resp) = GenericCodeFailure

\* A call failed because the entered code did not match the stored hash.
C7_Witness ==
    resp.op = "check" /\ resp.cause = "mismatch" /\ resp.status = 401

----------------------------------------------------------------------------
(* Properties of login *)

\* C8: a login whose phone matches no user, or matches a user with
\* is_active = false (with or without a local password), fails with
\* UserNotFound as a structured 404 or 401 error and issues no token.
C8_LoginWithoutActiveUser ==
    LET user_or_none == get_by_phone(resp.phone)
        noActiveUser == IF user_or_none = None THEN TRUE
                        ELSE ~Get(user_or_none).is_active
    IN  (resp.op = "login" /\ noActiveUser) =>
            /\ resp.error = "UserNotFoundError"
            /\ resp.status \in {401, 404}
            /\ resp.jwt = None

\* C9: a login for an active user whose hashed_password is null, or whose
\* stored hash was not made from the supplied password, fails with
\* InvalidCredentials (401) and returns no access token.
C9_NoTokenWithoutVerifiedPassword ==
    LET user_or_none == get_by_phone(resp.phone)
        unverified ==
            IF user_or_none = None THEN FALSE
            ELSE IF ~Get(user_or_none).is_active THEN FALSE
            ELSE IF Get(user_or_none).hashed_password = None THEN TRUE
            ELSE Get(Get(user_or_none).hashed_password).digest # resp.pw
    IN  (resp.op = "login" /\ unverified) =>
            /\ resp.status = 401
            /\ resp.error = "InvalidCredentials"
            /\ resp.jwt = None

\* An active user with a local password has been refused for a wrong password.
C9_Witness ==
    LET user_or_none == get_by_phone(resp.phone)
    IN  /\ resp.op = "login" /\ resp.status = 401
        /\ user_or_none # None
        /\ Get(user_or_none).is_active
        /\ Get(user_or_none).hashed_password # None
        /\ Get(Get(user_or_none).hashed_password).digest # resp.pw

\* C10: after a successful registration of a phone with a policy-compliant
\* password, login with that phone and password answers 200 with a token,
\* and get_current_user, given that token within its lifetime, resolves it
\* to the id of the user the registration created.
C10_RegisterThenLogin ==
    /\ (/\ resp.op = "login"
        /\ resp.phone \in DOMAIN registered
        /\ resp.pw = registered[resp.phone].pw)
            => (resp.status = 200 /\ resp.jwt # None)
    /\ (/\ resp.op = "me"
        /\ resp.phone \in DOMAIN registered
        /\ resp.pw = registered[resp.phone].pw
        /\ now <= Get(held).iat + JWT_LIFE_SPAN)
            => /\ resp.status = 200
               /\ resp.uid = Some(registered[resp.phone].id)
               /\ StrToInt(Get(resp.jwt).sub) = registered[resp.phone].id

\* The token of a login with registered credentials has been resolved.
C10_Witness ==
    /\ resp.op = "me" /\ resp.status = 200
    /\ resp.phone \in DOMAIN registered
    /\ resp.pw = registered[resp.phone].pw
    /\ CreateUserProfileSchema(Some(resp.pw)) = None
    /\ resp.uid = Some(registered[resp.phone].id)

----------------------------------------------------------------------------
(* Properties of the password operations *)

\* C11: set_password succeeds only on an account without a password: a
\* call on an account whose hashed_password is null stores a hash of its
\* new password and answers 200; a call that starts when the account has a
\* password (so every call after a successful one) is answered
\* PasswordAlreadySet (409) by a step that leaves the user table unchanged,
\* and never reaches the update.
C11_SetPasswordOnlyOnce ==
    /\ [](/\ (resp.op = "set" /\ resp.late /\ SetPasswordSchema(resp.pw) = None) =>
                (resp.status = 409 /\ resp.error = "PasswordAlreadySet")
          /\ (resp.op = "set" /\ resp.status = 200) =>
                /\ ~resp.late
                /\ users[Get(resp.uid)].hashed_password # None
                /\ Get(users[Get(resp.uid)].hashed_password).digest = resp.pw
          /\ (resp.op = "set" /\ ~resp.late /\ SetPasswordSchema(resp.pw) = None) =>
                resp.status = 200
          /\ \A p \in Tasks : loc[p].op = "set" => ~loc[p].late)
    /\ [][(resp'.op = "set" /\ resp'.late) => users' = users]_vars

\* The account that started without a password has one, and a further
\* set_password on it has been refused.
C11_Witness ==
    /\ resp.op = "set" /\ resp.late /\ resp.status = 409
    /\ resp.uid = Some(2)
    /\ users[2].hashed_password # None

\* C12: a change_password call whose old_password was not the password the
\* stored hash was made from is answered InvalidCredentials (401) by a step
\* that leaves the user table unchanged, and never reaches the update.
C12_WrongOldPasswordChangesNothing ==
    /\ [](/\ (resp.op = "change" /\ resp.mismatch) =>
                (resp.status = 401 /\ resp.error = "InvalidCredentials")
          /\ \A p \in Tasks : loc[p].op = "change" => ~loc[p].mismatch)
    /\ [][(resp'.op = "change" /\ resp'.mismatch) => users' = users]_vars

\* A call with a well-formed body was refused for its old password.
C12_Witness ==
    /\ resp.op = "change" /\ resp.mismatch /\ resp.status = 401
    /\ ChangePasswordSchema(resp.pw, resp.old) = None
    /\ resp.detail = "Current password is incorrect."

\* C13: a change_password call whose new_password equals its old_password
\* is answered with a 422 validation error and writes nothing.
C13_SamePasswordIs422 ==
    (resp.op = "change" /\ resp.pw = resp.old) =>
        (resp.status = 422 /\ ~resp.wrote)

\* C14: every stored password hash was made from a password of at least
\* the minimum length with a lowercase letter, an uppercase letter, a digit
\* and a non-alphanumeric symbol.
C14_PolicyGuardsEveryWrite ==
    \A u \in DOMAIN users :
        users[u].hashed_password # None =>
            CreateUserProfileSchema(
                Some(Get(users[u].hashed_password).digest)) = None

----------------------------------------------------------------------------
(* Properties of the login through Yandex and of the user table *)

LinksOf(profile) ==
    {a \in DOMAIN oauth_accounts :
        /\ oauth_accounts[a].provider = profile.oauth.provider
        /\ oauth_accounts[a].provider_user_id = profile.oauth.provider_user_id}

\* C15: a callback for an identity that had no link when the call began,
\* and that went as far as creating the link, is answered 200 with a token
\* for the user of the one link row of that identity, also when another
\* callback for the same identity runs at the same time.
C15_NoDoubleLink ==
    (resp.op = "oauth" /\ ~resp.late /\ resp.cause = "create_account") =>
        /\ resp.status = 200
        /\ resp.jwt # None
        /\ Cardinality(LinksOf(Get(resp.profile))) = 1
        /\ \A a \in LinksOf(Get(resp.profile)) :
                resp.uid = Some(oauth_accounts[a].user_id)

\* Rows of the user table that neither the seed nor a registration made.
CreatedByOAuth ==
    DOMAIN users \ (DOMAIN OAuthSeedUsers
                    \cup {registered[ph].id : ph \in DOMAIN registered})

\* C16: however the callbacks for one new external identity interleave, at
\* most one user row has been created from its profile.
C16_AtMostOneUserPerIdentity ==
    \A data \in YandexProfiles :
        Cardinality({u \in CreatedByOAuth :
                        users[u].email = Some(data.default_email)}) <= 1

\* Two callbacks for the same new identity were at the creation of the user
\* together, and one of them has been answered.
C16_Witness ==
    /\ resp.op = "oauth" /\ ~resp.late /\ resp.cause = "create_user"
    /\ \E p \in Tasks : pc[p] = "oauth_create_user" /\ loc[p].profile = resp.profile

\* C17: the update of a user matched by phone sets first_name, last_name,
\* birthday and email only where the stored value is null, to the
\* provider's non-empty value; a stored non-empty value stays, and phone,
\* patronymic, about, hashed_password, role and is_active stay.
C17_EnrichmentOneWay ==
    [][\A p \in Tasks :
        (pc[p] = "oauth_update_user" /\ pc'[p] # "oauth_update_user") =>
            LET user_id == Get(loc[p].uid)
                provider == Get(loc[p].profile).user
            IN  /\ \A field \in PROFILE_FIELDS_TO_ENRICH :
                        users'[user_id][field] # users[user_id][field] =>
                            /\ users[user_id][field] = None
                            /\ provider[field] # None
                            /\ users'[user_id][field] = provider[field]
                /\ \A field \in {"phone", "patronymic", "about",
                                 "hashed_password", "role", "is_active"} :
                        users'[user_id][field] = users[user_id][field]
                /\ \A u \in DOMAIN users \ {user_id} : users'[u] = users[u]]_vars

C19_FirstLoginCreatesUser ==
    LET profile == Get(resp.profile)
        unmatched == IF profile.user.phone = None THEN TRUE
                     ELSE get_by_phone(Get(profile.user.phone)) = None
    IN  (resp.op = "oauth" /\ ~resp.late /\ unmatched) =>
            /\ resp.status = 200
            /\ resp.jwt # None
            /\ resp.uid # None
            /\ Get(resp.uid) \in CreatedByOAuth
            /\ users[Get(resp.uid)].hashed_password = None
            /\ \E a \in LinksOf(profile) :
                    oauth_accounts[a].user_id = Get(resp.uid)

\* C20: no two user rows share a non-null phone or a non-null e-mail
\* address, and a registration with a well-formed body whose phone or e-mail
\* address a row already has is answered IntegrityDBError (409) and leaves
\* the user table unchanged.
C20_PhoneAndEmailUnique ==
    /\ [](\A u, v \in DOMAIN users :
            u # v =>
                /\ users[u].phone = None \/ users[u].phone # users[v].phone
                /\ users[u].email = None \/ users[u].email # users[v].email)
    /\ [][(/\ resp'.op = "register"
           /\ CreateUserProfileSchema(Some(resp'.pw)) = None
           /\ \E u \in DOMAIN users :
                \/ users[u].phone = Some(resp'.phone)
                \/ (resp'.email # None /\ users[u].email = resp'.email)) =>
                (/\ resp'.status = 409
                 /\ resp'.error = "IntegrityDBError"
                 /\ users' = users)]_vars

\* A registration with the e-mail address of an existing row was refused.
C20_Witness ==
    /\ resp.op = "register" /\ resp.status = 409
    /\ resp.email # None
    /\ \E u \in DOMAIN users :
            users[u].email = resp.email /\ users[u].phone # Some(resp.phone)

----------------------------------------------------------------------------
(* Properties of the profile update *)

\* C21: every successful user update that includes phone leaves
\* phone_verified false, every successful update that includes email leaves
\* email_verified false, and an update that includes neither leaves both
\* flags as they were.
C21_ContactChangeResetsVerification ==
    [][(resp'.op = "update_me" /\ resp'.status = 200) =>
        LET b == Get(resp'.body)
            u == Get(resp'.uid)
        IN  /\ "phone" \in b.keys => ~users'[u].phone_verified
            /\ "email" \in b.keys => ~users'[u].email_verified
            /\ b.keys \cap {"phone", "email"} = {} =>
                    /\ users'[u].phone_verified = users[u].phone_verified
                    /\ users'[u].email_verified = users[u].email_verified]_vars

----------------------------------------------------------------------------
(* Properties of registration, of the token and of the hasher *)

\* C22: a successful create_user persists exactly one new user, whose
\* hashed_password is a hash of the submitted password and not the password
\* itself, with phone_verified and email_verified false and the role user,
\* and the projection returned with the 201 has no password field.
C22_RegistrationResult ==
    [][(resp'.op = "register" /\ resp'.status = 201) =>
        \E id \in DOMAIN users' \ DOMAIN users :
            /\ DOMAIN users' = DOMAIN users \cup {id}
            /\ \A u \in DOMAIN users : users'[u] = users[u]
            /\ users'[id].phone = Some(resp'.phone)
            /\ users'[id].hashed_password # None
            /\ \E salt \in Salts :
                    Get(users'[id].hashed_password) = get_password_hash(resp'.pw, salt)
            /\ verify_password(resp'.pw, Get(users'[id].hashed_password))
            /\ ~users'[id].phone_verified
            /\ ~users'[id].email_verified
            /\ users'[id].role = "user"
            /\ resp'.json # None
            /\ DOMAIN Get(resp'.json) \cap {"password", "hashed_password"} = {}
            /\ Get(resp'.json).id = id]_vars

\* A registration has just been answered 201.
C22_Witness ==
    /\ resp.op = "register" /\ resp.status = 201
    /\ resp.uid # None /\ Get(resp.uid) \in DOMAIN users
    /\ resp.json # None

\* C23: a token made by create_access_token for a user id decodes to that id
\* until its expiry, whatever happened to the password of the user in
\* between, and no longer decodes once the configured lifetime has elapsed.
C23_TokenRoundTripAndExpiry ==
    (resp.op = "me" /\ held # None /\ resp.jwt = Some(Get(held).jwt)) =>
        LET h == Get(held)
            owner == get_by_phone(h.phone)
        IN  /\ now > h.iat + JWT_LIFE_SPAN => resp.status = 401
            /\ (now <= h.iat + JWT_LIFE_SPAN /\ owner # None) =>
                    /\ resp.status = 200
                    /\ resp.uid = Some(Get(owner).id)

\* Accepted: a token issued for a password that is no longer the password of
\* the account. Refused: the same kind of token after its lifetime.
C23_Witness ==
    /\ resp.op = "me" /\ resp.status = 200
    /\ held # None /\ resp.jwt = Some(Get(held).jwt)
    /\ now > Get(held).iat
    /\ LET u == Get(resp.uid)
       IN  Get(users[u].hashed_password).digest # Get(held).pw

\* C24: get_current_user answers 401 for an invalid, expired or malformed
\* token, and also for a valid token whose user is no longer in the table.
C24_CurrentUserFailuresAre401 ==
    (resp.op = "me" /\ resp.status # 200) => resp.status = 401

----------------------------------------------------------------------------
(* Properties of the normalizers and of the error responses *)

\* C26: every supported raw form of one Russian number normalizes to the
\* same string '+7XXXXXXXXXX', and normalizing that result again returns it
\* unchanged.
C26_PhoneNormalizationIdempotent ==
    resp.op = "normalize" =>
        LET r == Get(resp.json)
        IN  /\ r.once = Some(<<"+", "7">> \o r.number)
            /\ r.twice = r.once

\* C27: the response body produced for IntegrityDBError (409) contains only
\* the error type and a human-readable message, and no part of the original
\* database error string.
C27_IntegrityErrorHidesDatabaseText ==
    (resp.status = 409 /\ resp.error = "IntegrityDBError") =>
        /\ resp.json # None
        /\ DOMAIN Get(resp.json) = {"error", "detail"}

----------------------------------------------------------------------------
(* Further properties of the forgot-password flow *)

\* C28: whenever reset_password_via_token changes the password of a user U,
\* an earlier check_recovery_code succeeded on a recovery session that
\* send_recovery_code_via_email bound to U; and a reset token always resolves
\* to the user of the session it was minted from.
C28_ResetOnlyThroughVerifiedCode ==
    /\ [](\A t \in DOMAIN minted :
            /\ issued[minted[t].rid].user = Some(minted[t].uid)
            /\ TokenKey(t) \in DOMAIN cache =>
                    StrToInt(cache[TokenKey(t)]) = minted[t].uid)
    /\ [][\A u \in DOMAIN users :
            users'[u].hashed_password # users[u].hashed_password =>
                /\ resp'.op = "reset" /\ resp'.wrote
                /\ resp'.tok \in DOMAIN minted
                /\ minted[resp'.tok].uid = u
                /\ issued[minted[resp'.tok].rid].user = Some(u)]_vars

\* The password of the second user has been reset, with a token minted from
\* a session of the second user, while a session of the first user existed.
C28_Witness ==
    /\ resp.op = "reset" /\ resp.wrote /\ resp.status = 200
    /\ minted[resp.tok].uid = 2
    /\ Get(users[2].hashed_password).digest \in NewPasswords
    /\ \E rid \in DOMAIN issued : issued[rid].user = Some(1)

\* C29: in every reachable state, between the cache calls of a request and
\* under the expiry of single keys included, the cache holds a session
\* binding for a recovery_id if and only if it holds a hashed code for it.
C29_SessionAndCodeTogether ==
    \A recovery_id \in 1..MaxUuid :
        SessionKey(recovery_id) \in DOMAIN cache
            <=> CodeKey(recovery_id) \in DOMAIN cache

\* C30: reset_password_via_token deletes the reset token from the cache
\* before it attempts the password update; so when the update fails because
\* the bound user no longer exists, the token is already consumed and cannot
\* be used again.
C30_TokenDeletedBeforeUpdate ==
    /\ [](\A p \in Tasks :
            pc[p] = "reset_update" => TokenKey(loc[p].tok) \notin DOMAIN cache)
    /\ []((resp.op = "reset" /\ resp.cause = "no_user") =>
            /\ resp.status = 404 /\ ~resp.wrote
            /\ TokenKey(resp.tok) \notin DOMAIN cache)
    /\ [][\A t \in DOMAIN minted :
            TokenKey(t) \notin DOMAIN cache => TokenKey(t) \notin DOMAIN cache']_vars

\* A reset has failed because its user was deleted after the token was
\* minted.
C30_Witness ==
    /\ resp.op = "reset" /\ resp.cause = "no_user" /\ resp.status = 404
    /\ resp.tok \in DOMAIN minted
    /\ minted[resp.tok].uid \notin DOMAIN users

InvalidResetTokenFailure ==
    [status |-> 403, error |-> "InvalidResetToken", detail |-> AppExceptionDetail]

\* C31: every recovery session entry, hashed code entry and reset token
\* entry is eventually removed from the cache, by consumption or by its TTL;
\* and once an entry is gone, check_recovery_code fails with the generic
\* invalid-or-expired error and reset_password_via_token fails with
\* InvalidResetToken. (An entry that is always removed again is one that is
\* absent infinitely often.)
C31_ExpiryReturnsToIdle ==
    /\ \A k \in CacheKeys : []<>(k \notin DOMAIN cache)
    /\ [](\A p \in Tasks :
            (loc[p].op = "check" /\ loc[p].hashed = None) => pc[p] = "check_get_session")
    /\ []((resp.op = "check" /\ resp.cause \in {"no_code", "no_session"}) =>
            (HttpError(resp) = GenericCodeFailure /\ resp.tok = 0))
    /\ []((resp.op = "reset" /\ resp.cause = "no_token") =>
            (HttpError(resp) = InvalidResetTokenFailure /\ ~resp.wrote))
    /\ [][\A p \in Tasks :
            /\ (pc[p] = "idle" /\ pc'[p] = "check_get_session"
                    /\ CodeKey(loc'[p].rid) \notin DOMAIN cache)
                => loc'[p].hashed = None
            /\ (pc[p] = "check_get_session" /\ pc'[p] # pc[p]
                    /\ SessionKey(loc[p].rid) \notin DOMAIN cache)
                => (pc'[p] = "idle" /\ resp'.cause \in {"no_code", "no_session"})
            /\ (pc[p] = "idle" /\ pc'[p] = "reset_delete_token")
                => TokenKey(loc'[p].tok) \in DOMAIN cache]_vars

\* A check of a session whose e-mail was sent and whose code was never
\* verified finds the code gone: the entry has expired.
C31_Witness ==
    /\ resp.op = "check" /\ resp.cause = "no_code" /\ resp.status = 401
    /\ resp.rid \notin Verified
    /\ \E m \in outbox : m.rid = resp.rid
    /\ \A p \in Tasks : pc[p] = "idle"

\* C32: the raw recovery code is never stored. The value under a recovery
\* id's code key is an Argon2 hash of the text of the code generated for that
\* id; every generated code is an integer in 100000..999999; the code in
\* plain form is only in the e-mail sent for its recovery id.
C32_RawCodeNeverStored ==
    /\ \A rid \in DOMAIN issued :
            /\ issued[rid].code \in CodeBase..(CodeBase + CodeRange - 1)
            /\ Len(IntToStr(issued[rid].code)) = 6
    /\ \A rid \in 1..MaxUuid :
            CodeKey(rid) \in DOMAIN cache =>
                /\ rid \in DOMAIN issued
                /\ cache[CodeKey(rid)].alg = "argon2id"
                /\ \E salt \in Salts :
                        cache[CodeKey(rid)] =
                            get_password_hash(IntToStr(issued[rid].code), salt)
    /\ \A m \in outbox : m.rid \in DOMAIN issued /\ m.code = issued[m.rid].code

\* The largest code was generated, cached and mailed.
C32_Witness ==
    \E rid \in DOMAIN issued :
        /\ issued[rid].code = CodeBase + CodeRange - 1
        /\ CodeKey(rid) \in DOMAIN cache
        /\ \E m \in outbox : m.rid = rid /\ m.code = issued[rid].code

\* C33: user lookup by phone uses the normalized form. A login with any
\* supported raw form of the number of an active user and with that user's
\* password is answered 200, and a recovery request with any supported raw
\* form of a registered user's number opens a session of that user.
C33_LookupUsesNormalizedPhone ==
    /\ []((/\ resp.op = "login"
           /\ normalize_phone(Some(resp.phone)) = Some(Phone1)
           /\ users[1].is_active
           /\ resp.pw = Password0)
          => resp.status = 200)
    /\ [][\A p \in Tasks, form \in PhoneForms, r \in RandBelow, s \in RecoverySalts :
            (/\ normalize_phone(Some(RawPhone(National1, form))) = Some(Phone1)
             /\ send_recovery_code_via_email(p, RawPhone(National1, form), r, s))
            => issued'[nextUuid].user = Some(1)]_vars

\* C34: a failed code verification changes nothing. The two steps of a
\* check_recovery_code call that ends in its 401 leave every cache entry, of
\* its recovery id and of every other one, as they were and create no reset
\* token; after a wrong attempt the entries that are still cached accept the
\* correct code of that session.
C34_FailedCheckChangesNothing ==
    /\ [][\A p \in Tasks :
            (\/ pc[p] = "idle" /\ pc'[p] = "check_get_session"
             \/ pc[p] = "check_get_session" /\ pc'[p] = "idle")
            => /\ cache' = cache
               /\ minted' = minted
               /\ nextUuid' = nextUuid
               /\ users' = users
               /\ outbox' = outbox]_vars
    /\ [][\A p \in Tasks :
            (pc[p] = "check_get_session" /\ pc'[p] = "idle")
            => (HttpError(resp') = GenericCodeFailure /\ resp'.tok = 0)]_vars
    /\ []((/\ resp.op = "check" /\ resp.cause = "mismatch"
           /\ CodeKey(resp.rid) \in DOMAIN cache
           /\ SessionKey(resp.rid) \in DOMAIN cache)
          => /\ verify_password(IntToStr(issued[resp.rid].code), cache[CodeKey(resp.rid)])
             /\ Some(StrToInt(cache[SessionKey(resp.rid)])) = issued[resp.rid].user)

\* A wrong code was answered 401 and the session is still complete and
\* unverified.
C34_Witness ==
    /\ resp.op = "check" /\ resp.cause = "mismatch" /\ resp.status = 401
    /\ resp.code # issued[resp.rid].code
    /\ CodeKey(resp.rid) \in DOMAIN cache
    /\ SessionKey(resp.rid) \in DOMAIN cache
    /\ resp.rid \notin Verified

\* C35: of two concurrent set_password calls on an account whose
\* hashed_password is null at most one succeeds: a set_password call is
\* answered 200 only when the row it writes still has no hash, so the stored
\* hash is the one of the single successful call.
C35_ConcurrentSetPassword ==
    [][\A p \in Tasks :
        (/\ loc[p].op = "set" /\ pc[p] = "set_update"
         /\ pc'[p] = "idle" /\ resp'.status = 200)
        => users[Get(loc[p].uid)].hashed_password = None]_vars

\* C36: every passwordless account is linked. In every reachable state each
\* user whose hashed_password is null has at least one oauth_accounts row
\* that points to it.
C36_PasswordlessAccountIsLinked ==
    \A u \in DOMAIN users :
        users[u].hashed_password = None =>
            \E a \in DOMAIN oauth_accounts : oauth_accounts[a].user_id = u

\* A callback of the linked identity was answered with a token of the
\* passwordless user.
C36_Witness ==
    /\ resp.op = "oauth" /\ resp.status = 200 /\ resp.uid = Some(2)
    /\ users[2].hashed_password = None
    /\ \E a \in DOMAIN oauth_accounts : oauth_accounts[a].user_id = 2

\* C37: a local password, once set, is never removed. No step of a profile
\* update, an OAuth callback with its enrichment, set_password,
\* change_password or the recovery flow changes a user's hashed_password from
\* a hash to null, and the steps of profile updates and OAuth callbacks leave
\* every hashed_password as it was.
C37_PasswordNeverRemoved ==
    [][\A u \in DOMAIN users :
        /\ users[u].hashed_password # None =>
                (u \in DOMAIN users' /\ users'[u].hashed_password # None)
        /\ (\/ resp'.op = "update_me"
            \/ \E p \in Tasks : pc'[p] # pc[p] /\ "oauth" \in {loc[p].op, loc'[p].op})
            => (u \in DOMAIN users' /\ users'[u].hashed_password = users[u].hashed_password)
      ]_vars

\* The enrichment of a callback has written to the row of a user with a
\* local password, a profile update to it was answered 200, and the hash is
\* the one the recovery flow wrote.
C37_Witness ==
    /\ resp.op = "update_me" /\ resp.status = 200 /\ resp.uid = Some(1)
    /\ users[1].last_name # None
    /\ users[1].hashed_password = Some(get_password_hash(Password2, "salt1"))

====
